---- MODULE Spec2Model ----
(***************************************************************************)
(* Environment engine of the ecology simulator: registry, initial tensor,  *)
(* per-tick kernels, delta journaling, run-directory artifacts, hydration  *)
(* (replay) and the agent-facing environment view.                         *)
(*                                                                         *)
(* Numbers: the float32 tensors are modelled in fixed point, Unit = 1.0,   *)
(* every multiplication or division rounding down.  Python lists are       *)
(* functions on 0..n-1, so a field's position is its field_id.             *)
(***************************************************************************)
EXTENDS Integers, Sequences, FiniteSets, TLC

VARIABLES eng, disk, hyd, view, agt, ret

vars == <<eng, disk, hyd, view, agt, ret>>

(* ------------------------------ bounds --------------------------------- *)
MaxTicks == 3
WorldW == 3
WorldH == 2

(* --------------------------- number model ------------------------------ *)
Unit == 1000
Evap == 5
DeltaEps == 0
AdvectEdge == 1001

Min(a, b) == IF a < b THEN a ELSE b
Max(a, b) == IF a > b THEN a ELSE b
Abs(a) == IF a < 0 THEN -a ELSE a
Clip(v, lo, hi) == Min(Max(v, lo), hi)
\* F(v), with v evaluated once
With(v, F(_)) == CHOOSE r \in {F(x) : x \in {v}} : TRUE
Mul(a, b) == (a * b) \div Unit

List(s) == [i \in 0..(Len(s) - 1) |-> s[i + 1]]
ListLen(l) == Cardinality(DOMAIN l)

(* ----------------------------- scenarios ------------------------------- *)
Coeffs(d, vx, vy, dec, rep) ==
    [diffusion |-> d, vx |-> vx, vy |-> vy, decay |-> dec, replenish |-> rep]

Fld(name, lo, hi, c, der) ==
    [name |-> name, lo |-> lo, hi |-> hi, coeffs |-> c, derived |-> der]

ZeroCoeffs == Coeffs(0, 0, 0, 0, 0)

AllPasses == [diffusion |-> TRUE, advection |-> TRUE, coupling |-> TRUE,
              decay |-> TRUE, replenishment |-> TRUE, derived |-> TRUE]

VegProfile == [k |-> 80, water_half |-> 350, heat_optimum |-> 650,
               heat_sigma |-> 180, carrying_capacity |-> 1000]

HeatProfile == [amplitude |-> 200, noise_amp |-> 50]

Scenario(name, fields, wx, wy, passes) ==
    [name |-> name,
     world |-> [width |-> WorldW, height |-> WorldH, wrapx |-> wx, wrapy |-> wy],
     fields |-> List(fields),
     passes |-> passes,
     metrics_cadence |-> 1,
     heat_profile |-> HeatProfile,
     vegetation_profile |-> VegProfile]

\* cli.py scenario_defaults: the default scenario
ScenarioDefault ==
    Scenario("default",
        << Fld("temperature", 0, Unit, Coeffs(180, 0, 0, 0, 0), FALSE),
           Fld("hydration", 0, Unit, Coeffs(120, 0, 0, 0, 0), FALSE),
           Fld("vegetation", 0, Unit, Coeffs(50, 0, 0, 0, 0), FALSE),
           Fld("movement_cost", 0, Unit, ZeroCoeffs, TRUE) >>,
        TRUE, TRUE, AllPasses)

\* every coefficient zero and the coupling pass switched off
ScenarioFrozen ==
    Scenario("frozen",
        << Fld("temperature", 0, Unit, ZeroCoeffs, FALSE),
           Fld("hydration", 0, Unit, ZeroCoeffs, FALSE),
           Fld("vegetation", 0, Unit, ZeroCoeffs, FALSE),
           Fld("movement_cost", 0, Unit, ZeroCoeffs, TRUE) >>,
        TRUE, TRUE, [AllPasses EXCEPT !.coupling = FALSE])

\* a derived movement_cost registered with bounds narrower than [0,1]
ScenarioNarrow ==
    Scenario("narrow",
        << Fld("hydration", 200, 800, Coeffs(100, 500, 0, 0, 0), FALSE),
           Fld("vegetation", 0, Unit, ZeroCoeffs, FALSE),
           Fld("movement_cost", 0, 250, ZeroCoeffs, TRUE) >>,
        FALSE, TRUE, AllPasses)

\* one generic scalar field: advection, decay and replenishment, no wrap
ScenarioTracer ==
    Scenario("tracer",
        << Fld("tracer", 0, Unit, Coeffs(0, 500, 250, 100, 20), FALSE) >>,
        FALSE, FALSE, AllPasses)

\* a field nothing ever changes: the run emits no delta record
ScenarioStatic ==
    Scenario("static",
        << Fld("vegetation", 0, Unit, ZeroCoeffs, FALSE) >>,
        TRUE, FALSE, AllPasses)

\* a derived movement_cost with neither vegetation nor hydration registered
ScenarioBare ==
    Scenario("bare",
        << Fld("temperature", 0, Unit, ZeroCoeffs, FALSE),
           Fld("movement_cost", 0, Unit, ZeroCoeffs, TRUE) >>,
        TRUE, TRUE, AllPasses)

Scenarios == {ScenarioDefault, ScenarioFrozen, ScenarioNarrow, ScenarioTracer,
              ScenarioStatic, ScenarioBare}

Seeds == {1337, 9999}

\* stable_hash: canonical (sorted-key) serialisation, then a digest taken as
\* collision free; the _scenario_hash key is not part of the hashed object
StableHash(cfg) ==
    << "blake2b", cfg.name, cfg.seed, cfg.world, cfg.fields, cfg.passes >>

\* load_scenario, then what callers do with the loaded dict before the run
\* (tests set cfg["randomness"]["seed"] after loading, leaving the hash stale)
LoadScenario(base, seed) ==
    LET cfg == [name |-> base.name, world |-> base.world, fields |-> base.fields,
                passes |-> base.passes, metrics_cadence |-> base.metrics_cadence,
                heat_profile |-> base.heat_profile,
                vegetation_profile |-> base.vegetation_profile,
                seed |-> seed, kernel_noise |-> 5]
    IN  [cfg |-> cfg, hash |-> StableHash(cfg)]

(* ------------------------------ registry ------------------------------- *)
FieldIds(cfg) == DOMAIN cfg.fields

build_registry(cfg) ==
    LET fields == cfg.fields
        names == [i \in DOMAIN fields |-> fields[i].name]
    IN  [names |-> names,
         indices |-> [n \in {names[i] : i \in DOMAIN names} |->
                        CHOOSE i \in DOMAIN names :
                            /\ names[i] = n
                            /\ \A j \in DOMAIN names : names[j] = n => j <= i],
         bounds |-> [i \in DOMAIN fields |-> [lo |-> fields[i].lo, hi |-> fields[i].hi]],
         coeffs |-> [i \in DOMAIN fields |-> fields[i].coeffs],
         derived |-> [i \in DOMAIN fields |-> fields[i].derived]]

HasField(reg, n) == n \in DOMAIN reg.indices

(* ------------------------------ tensors -------------------------------- *)
Cells(h, w) == (0..(h - 1)) \X (0..(w - 1))

TensorDomain(h, w, f) == {<<y, x, i>> : y \in 0..(h - 1), x \in 0..(w - 1), i \in 0..(f - 1)}

Zeros(h, w, f) == [k \in TensorDomain(h, w, f) |-> 0]

\* tensor[:, :, i]
Slice(tensor, h, w, i) == [c \in Cells(h, w) |-> tensor[<<c[1], c[2], i>>]]

\* tensor[:, :, i] = arr
SetSlice(tensor, i, arr) ==
    [k \in DOMAIN tensor |-> IF k[3] = i THEN arr[<<k[1], k[2]>>] ELSE tensor[k]]

(* ------------------------ initial condition ---------------------------- *)
\* The generators' seeded noise (default_rng(seed), Gaussian filtered): a fixed
\* function of seed and cell with values in -amp..amp
Noise(seed, salt, y, x, amp) ==
    ((seed * 31 + salt * 13 + y * 17 + x * 7) % (2 * amp + 1)) - amp

\* exp(-z^2 / 2) for z >= 0 in fixed point, in steps of half a sigma
Gauss(z) ==
    IF z < 250 THEN 990
    ELSE IF z < 750 THEN 882
    ELSE IF z < 1250 THEN 607
    ELSE IF z < 1750 THEN 325
    ELSE IF z < 2250 THEN 135
    ELSE IF z < 2750 THEN 44
    ELSE IF z < 3250 THEN 11
    ELSE 0

\* a / (b + 1e-8)
SafeDiv(a, b) == IF b = 0 THEN (IF a = 0 THEN 0 ELSE a * Unit * Unit) ELSE (a * Unit) \div b

\* sw = H / (H + water_half + 1e-8)
WaterResponse(hv, vp) == SafeDiv(hv, hv + vp.water_half)

\* st = exp(-0.5 * ((T - opt) / (sigma + 1e-8)) ** 2)
HeatResponse(tv, vp) == Gauss(SafeDiv(Abs(tv - vp.heat_optimum), vp.heat_sigma))

temperature_meridional(h, w, hp, seed) ==
    [c \in Cells(h, w) |->
        LET yc == IF h = 1 THEN 0 ELSE (c[1] * Unit) \div (h - 1)
            dist == Abs(yc - 500) * 2
            base == 500 + Mul(hp.amplitude, (Unit - dist) - 500)
        IN  Clip(base + Noise(seed, 5, c[1], c[2], hp.noise_amp), 0, Unit)]

\* the hydrology chain (elevation, flow accumulation, lakes, distance
\* transforms), taken as a seeded raster clipped to [0,1]
hydration_from_hydrology(h, w, seed) ==
    [c \in Cells(h, w) |-> Clip(300 + 350 + Noise(seed, 3, c[1], c[2], 350), 0, Unit)]

vegetation_init(H2O, T, vp, seed) ==
    [c \in DOMAIN H2O |->
        LET v0 == Mul(vp.carrying_capacity, Mul(WaterResponse(H2O[c], vp), HeatResponse(T[c], vp)))
        IN  Clip(v0 + Noise(seed, 4, c[1], c[2], 10), 0, Unit)]

assemble_initial_tensor(cfg, registry) ==
    LET h == cfg.world.height
        w == cfg.world.width
        f == ListLen(registry.names)
        T == temperature_meridional(h, w, cfg.heat_profile, cfg.seed + cfg.kernel_noise)
        H2O == hydration_from_hydrology(h, w, cfg.seed)
        V0 == vegetation_init(H2O, T, cfg.vegetation_profile, cfg.seed)
        \* for name, idx in registry["indices"].items()
        raw == [k \in TensorDomain(h, w, f) |->
                  LET n == registry.names[k[3]]
                  IN  IF registry.indices[n] # k[3] THEN 0
                      ELSE IF n = "temperature" THEN T[<<k[1], k[2]>>]
                      ELSE IF n = "hydration" THEN H2O[<<k[1], k[2]>>]
                      ELSE IF n = "vegetation" THEN V0[<<k[1], k[2]>>]
                      ELSE 0]
    IN  [k \in DOMAIN raw |-> Clip(raw[k], registry.bounds[k[3]].lo, registry.bounds[k[3]].hi)]

(* ------------------------------ kernels -------------------------------- *)
\* a stencil that takes the opposite edge whatever the wrap flags say
laplacian5_always_wrap(arr, h, w, wrapx, wrapy) ==
    [c \in DOMAIN arr |->
        LET y == c[1]
            x == c[2]
        IN  arr[<<(y - 1 + h) % h, x>>] + arr[<<(y + 1) % h, x>>]
              + arr[<<y, (x - 1 + w) % w>>] + arr[<<y, (x + 1) % w>>] - 4 * arr[c]]

\* kernels.py lines 4-15
laplacian5(arr, h, w, wrapx, wrapy) ==
    [c \in DOMAIN arr |->
        LET y == c[1]
            x == c[2]
            ym1 == IF wrapy THEN (y - 1 + h) % h ELSE Max(y - 1, 0)
            yp1 == IF wrapy THEN (y + 1) % h ELSE Min(y + 1, h - 1)
            xm1 == IF wrapx THEN (x - 1 + w) % w ELSE Max(x - 1, 0)
            xp1 == IF wrapx THEN (x + 1) % w ELSE Min(x + 1, w - 1)
        IN  arr[<<ym1, x>>] + arr[<<yp1, x>>] + arr[<<y, xm1>>] + arr[<<y, xp1>>]
              - 4 * arr[c]]

advect(arr, h, w, vx, vy, wrapx, wrapy) ==
    [c \in DOMAIN arr |->
        LET fx0 == c[2] * Unit - vx
            fy0 == c[1] * Unit - vy
            fx == IF wrapx THEN fx0 % (w * Unit) ELSE Min(Max(fx0, 0), w * Unit - AdvectEdge)
            fy == IF wrapy THEN fy0 % (h * Unit) ELSE Min(Max(fy0, 0), h * Unit - AdvectEdge)
            x0 == fx \div Unit
            y0 == fy \div Unit
            x1 == IF wrapx THEN (x0 + 1) % w ELSE Min(x0 + 1, w - 1)
            y1 == IF wrapy THEN (y0 + 1) % h ELSE Min(y0 + 1, h - 1)
            sx == fx - x0 * Unit
            sy == fy - y0 * Unit
        IN  ((Unit - sx) * (Unit - sy) * arr[<<y0, x0>>]
               + sx * (Unit - sy) * arr[<<y0, x1>>]
               + (Unit - sx) * sy * arr[<<y1, x0>>]
               + sx * sy * arr[<<y1, x1>>]) \div (Unit * Unit)]

\* lines 50-63: diffusion then advection of every non-derived field, each
\* field read from the pre-pass tensor
TransportPass(tensor, registry, h, w, wrapx, wrapy) ==
    [k \in DOMAIN tensor |->
        LET i == k[3]
            c == registry.coeffs[i]
            arr0 == Slice(tensor, h, w, i)
            lap == laplacian5(arr0, h, w, wrapx, wrapy)
            arr1 == IF c.diffusion # 0
                    THEN [q \in DOMAIN arr0 |-> arr0[q] + Mul(c.diffusion, lap[q])]
                    ELSE arr0
            arr2 == IF c.vx # 0 \/ c.vy # 0
                    THEN advect(arr1, h, w, c.vx, c.vy, wrapx, wrapy)
                    ELSE arr1
        IN  IF registry.derived[i] THEN tensor[k] ELSE arr2[<<k[1], k[2]>>]]

\* lines 64-69: evaporation, whenever temperature and hydration are registered
EvaporationPass(tensor, registry) ==
    IF HasField(registry, "temperature") /\ HasField(registry, "hydration")
    THEN LET t_idx == registry.indices["temperature"]
             h_idx == registry.indices["hydration"]
         IN  [k \in DOMAIN tensor |->
                IF k[3] = h_idx
                THEN Clip(tensor[k] - Mul(Evap, Clip(tensor[<<k[1], k[2], t_idx>>], 0, Unit)),
                          0, Unit)
                ELSE tensor[k]]
    ELSE tensor

\* lines 70-84: vegetation growth and the water it consumes
VegetationPass(tensor, cfg, registry) ==
    IF HasField(registry, "vegetation") /\ HasField(registry, "hydration")
         /\ HasField(registry, "temperature")
    THEN LET t_idx == registry.indices["temperature"]
             h_idx == registry.indices["hydration"]
             v_idx == registry.indices["vegetation"]
             vp == cfg.vegetation_profile
             growth(y, x) ==
                 LET Hv == tensor[<<y, x, h_idx>>]
                     Tv == tensor[<<y, x, t_idx>>]
                     Vv == tensor[<<y, x, v_idx>>]
                 IN  Mul(Mul(Mul(Mul(vp.k, Vv), Unit - SafeDiv(Vv, vp.carrying_capacity)),
                             WaterResponse(Hv, vp)),
                         HeatResponse(Tv, vp))
         IN  [k \in DOMAIN tensor |->
                IF k[3] = v_idx THEN Clip(tensor[k] + growth(k[1], k[2]), 0, Unit)
                ELSE IF k[3] = h_idx THEN Clip(tensor[k] - (growth(k[1], k[2]) \div 2), 0, Unit)
                ELSE tensor[k]]
    ELSE tensor

\* lines 85-96: decay, replenishment and the clamp to the registered bounds
DecayClampPass(tensor, registry) ==
    [k \in DOMAIN tensor |->
        LET i == k[3]
            c == registry.coeffs[i]
            v1 == IF c.decay # 0 THEN Mul(tensor[k], Unit - c.decay) ELSE tensor[k]
            v2 == IF c.replenish # 0 THEN Clip(v1 + c.replenish, 0, Unit) ELSE v1
        IN  IF registry.derived[i] THEN tensor[k]
            ELSE Clip(v2, registry.bounds[i].lo, registry.bounds[i].hi)]

\* lines 97-102: the derived movement_cost field
DerivedPass(tensor, registry) ==
    IF HasField(registry, "movement_cost")
    THEN LET idx == registry.indices["movement_cost"]
             hy(y, x) == IF HasField(registry, "hydration")
                         THEN tensor[<<y, x, registry.indices["hydration"]>>] ELSE 0
             ve(y, x) == IF HasField(registry, "vegetation")
                         THEN tensor[<<y, x, registry.indices["vegetation"]>>] ELSE 0
         IN  [k \in DOMAIN tensor |->
                IF k[3] = idx
                THEN Clip(300 + Mul(500, ve(k[1], k[2])) + Mul(200, Unit - hy(k[1], k[2])),
                          0, Unit)
                ELSE tensor[k]]
    ELSE tensor

\* step_kernels never reads cfg["dynamics"]["passes"], and noise_rng is unused
step_kernels(tensor, cfg, registry, wrapx, wrapy, noise_rng) ==
    LET h == cfg.world.height
        w == cfg.world.width
        a == TransportPass(tensor, registry, h, w, wrapx, wrapy)
        b == EvaporationPass(a, registry)
        c == VegetationPass(b, cfg, registry)
        d == DecayClampPass(c, registry)
    IN  DerivedPass(d, registry)

(* ------------------------------- engine -------------------------------- *)
RECURSIVE SumSeq(_)
SumSeq(s) == IF s = <<>> THEN 0 ELSE Head(s) + SumSeq(Tail(s))

\* the cells of field i in row-major order, as np.where lists them
CellSeq(h, w) == [n \in 1..(h * w) |-> <<(n - 1) \div w, (n - 1) % w>>]

\* float(arr.mean())
FieldMean(tensor, h, w, i) ==
    SumSeq([n \in 1..(h * w) |-> tensor[<<CellSeq(h, w)[n][1], CellSeq(h, w)[n][2], i>>]])
        \div (h * w)

Row(t, x, y, i, dv) == [tick |-> t, x |-> x, y |-> y, field_id |-> i, delta |-> dv]

\* the delta records of tick t with the derived fields journaled as well
DeltaRows_derived_too(t, old, new, registry, h, w) ==
    LET f == ListLen(registry.names)
        all == [n \in 1..(f * h * w) |->
                  LET i == (n - 1) \div (h * w)
                      c == CellSeq(h, w)[((n - 1) % (h * w)) + 1]
                  IN  Row(t, c[2], c[1], i, new[<<c[1], c[2], i>>] - old[<<c[1], c[2], i>>])]
        Keep(r) == Abs(r.delta) > DeltaEps
    IN  SelectSeq(all, Keep)

\* lines 141-147: the delta records of tick t, fields in registry order, cells
\* in row-major order, derived fields skipped
DeltaRows(t, old, new, registry, h, w) ==
    LET f == ListLen(registry.names)
        all == [n \in 1..(f * h * w) |->
                  LET i == (n - 1) \div (h * w)
                      c == CellSeq(h, w)[((n - 1) % (h * w)) + 1]
                  IN  Row(t, c[2], c[1], i, new[<<c[1], c[2], i>>] - old[<<c[1], c[2], i>>])]
        Keep(r) == ~registry.derived[r.field_id] /\ Abs(r.delta) > DeltaEps
    IN  SelectSeq(all, Keep)

\* the non-derived fields in registry order
LiveFields(registry) ==
    LET f == ListLen(registry.names)
        Live(i) == ~registry.derived[i]
    IN  SelectSeq([n \in 1..f |-> n - 1], Live)

\* lines 149-163: the metric rows collected after tick t
FieldRows(t, tensor, cfg, registry) ==
    IF (t + 1) % cfg.metrics_cadence = 0
    THEN LET live == LiveFields(registry)
         IN  [n \in 1..Len(live) |->
                [tick |-> t, field |-> registry.names[live[n]],
                 mean |-> FieldMean(tensor, cfg.world.height, cfg.world.width, live[n])]]
    ELSE <<>>

HydroRows(t, cfg) == IF (t + 1) % cfg.metrics_cadence = 0 THEN << [tick |-> t] >> ELSE <<>>

StructRows(t, cfg, registry) ==
    IF (t + 1) % cfg.metrics_cadence = 0
    THEN LET live == LiveFields(registry)
         IN  [n \in 1..Len(live) |-> [tick |-> t, field |-> registry.names[live[n]]]]
    ELSE <<>>

\* line 165: the event line of tick t
EventLine(t, tensor, cfg, registry) ==
    LET live == LiveFields(registry)
    IN  [tick |-> t,
         mean |-> [n \in 1..Len(live) |->
                     FieldMean(tensor, cfg.world.height, cfg.world.width, live[n])]]

\* a file of the run directory
Absent == [exists |-> FALSE, content |-> <<>>]
File(c) == [exists |-> TRUE, content |-> c]

ArtifactFiles == {"manifest.json", "scenario.json", "deltas.parquet",
                  "field_stats.parquet", "hydrology.parquet", "structure.parquet",
                  "events.ndjson"}

\* blake3 of a file's bytes, taken as collision free
Blake3(content) == << "blake3", content >>

\* lines 117-125: the manifest dict
Manifest(hash, ticks, label, created) ==
    [schema_version |-> "1.0", scenario_hash |-> hash, ticks |-> ticks,
     label |-> label, created |-> created, has_runtime_s |-> FALSE]

\* lines 102-138: run_headless up to the loop
StartEngine(loaded, ticks, label, created) ==
    LET reg == build_registry(loaded.cfg)
        tensor == assemble_initial_tensor(loaded.cfg, reg)
    IN  [cfg |-> loaded.cfg, scenario_hash |-> loaded.hash, ticks |-> ticks,
         label |-> label, reg |-> reg, pc |-> "loop", t |-> 0,
         manifest |-> Manifest(loaded.hash, ticks, label, created),
         tensor |-> tensor, held |-> << tensor >>,
         deltas_rows |-> <<>>, metrics_field_rows |-> <<>>,
         metrics_hydro_rows |-> <<>>, metrics_struct_rows |-> <<>>]

\* lines 126-129: manifest.json and scenario.json written before the loop
StartDisk(e) ==
    [files |-> [f \in ArtifactFiles |->
                  IF f = "manifest.json" THEN File(e.manifest)
                  ELSE IF f = "scenario.json"
                       THEN File([cfg |-> e.cfg, scenario_hash |-> e.scenario_hash])
                  ELSE Absent],
     checksums |-> [f \in ArtifactFiles |-> Absent]]

\* the loop iteration with kernel noise drawn from a generator seeded with the
\* wall clock (the manifest's creation time) instead of the scenario's seed
TickEngineClockSeeded(e) ==
    LET noise_rng == e.manifest.created
        stepped == step_kernels(e.tensor, e.cfg, e.reg, e.cfg.world.wrapx,
                                e.cfg.world.wrapy, noise_rng)
        new_tensor == [k \in DOMAIN stepped |->
                         IF e.reg.derived[k[3]] THEN stepped[k]
                         ELSE Clip(stepped[k] + (noise_rng % 3), e.reg.bounds[k[3]].lo,
                                   e.reg.bounds[k[3]].hi)]
    IN  [e EXCEPT
           !.deltas_rows = @ \o DeltaRows(e.t, e.tensor, new_tensor, e.reg,
                                           e.cfg.world.height, e.cfg.world.width),
           !.tensor = new_tensor,
           !.held = Append(@, new_tensor),
           !.metrics_field_rows = @ \o FieldRows(e.t, new_tensor, e.cfg, e.reg),
           !.metrics_hydro_rows = @ \o HydroRows(e.t, e.cfg),
           !.metrics_struct_rows = @ \o StructRows(e.t, e.cfg, e.reg),
           !.t = e.t + 1]

\* lines 138-163: one iteration of the loop, in memory.  held keeps every
\* tensor the engine has held: held[1] the initial one, held[k + 1] the one
\* after processing tick k - 1
TickEngine(e) ==
    LET noise_rng == e.cfg.seed + e.cfg.kernel_noise
        new_tensor == step_kernels(e.tensor, e.cfg, e.reg, e.cfg.world.wrapx,
                                   e.cfg.world.wrapy, noise_rng)
    IN  [e EXCEPT
           !.deltas_rows = @ \o DeltaRows(e.t, e.tensor, new_tensor, e.reg,
                                           e.cfg.world.height, e.cfg.world.width),
           !.tensor = new_tensor,
           !.held = Append(@, new_tensor),
           !.metrics_field_rows = @ \o FieldRows(e.t, new_tensor, e.cfg, e.reg),
           !.metrics_hydro_rows = @ \o HydroRows(e.t, e.cfg),
           !.metrics_struct_rows = @ \o StructRows(e.t, e.cfg, e.reg),
           !.t = e.t + 1]

\* lines 164-165: the event line appended to streams/events.ndjson
TickDisk(e, d, e2) ==
    LET old == d.files["events.ndjson"]
        line == EventLine(e.t, e2.tensor, e.cfg, e.reg)
    IN  [d EXCEPT !.files["events.ndjson"] =
            File((IF old.exists THEN old.content ELSE <<>>) \o << line >>)]

\* lines 166-174: the journal (only when it has rows) and the metrics tables
TablesDisk(e, d) ==
    [d EXCEPT !.files =
        [f \in ArtifactFiles |->
            IF f = "deltas.parquet"
            THEN (IF Len(e.deltas_rows) > 0 THEN File(e.deltas_rows) ELSE d.files[f])
            ELSE IF f = "field_stats.parquet" THEN File(e.metrics_field_rows)
            ELSE IF f = "hydrology.parquet" THEN File(e.metrics_hydro_rows)
            ELSE IF f = "structure.parquet" THEN File(e.metrics_struct_rows)
            ELSE d.files[f]]]

\* lines 79-91 and 175-185: a checksum for every listed file that exists
write_checksums(d) ==
    [d EXCEPT !.checksums =
        [f \in ArtifactFiles |->
            IF d.files[f].exists THEN File(Blake3(d.files[f].content))
            ELSE d.checksums[f]]]

\* lines 186-189: the manifest rewritten with runtime_s
FinalManifestDisk(e, d) ==
    [d EXCEPT !.files["manifest.json"] = File([e.manifest EXCEPT !.has_runtime_s = TRUE])]

(* ------------------------------ hydrator ------------------------------- *)
\* the sum of the deltas of the rows with tick <= t that address cell k
RECURSIVE RowSum(_, _, _)
RowSum(rows, t, k) ==
    IF rows = <<>> THEN 0
    ELSE LET r == Head(rows)
         IN  (IF r.tick <= t /\ <<r.y, r.x, r.field_id>> = k THEN r.delta ELSE 0)
               + RowSum(Tail(rows), t, k)

\* tensor[y, x, field_id] += delta for every row with tick <= t
ApplyRows(tensor, rows, t) == [k \in DOMAIN tensor |-> tensor[k] + RowSum(rows, t, k)]

\* hydrator.py lines 7-16
replay_frame(d, t, h, w, f) ==
    IF ~d.files["deltas.parquet"].exists THEN Zeros(h, w, f)
    ELSE ApplyRows(Zeros(h, w, f), d.files["deltas.parquet"].content, t)

\* hydrate_tick without the "tick > 0" test before the replay
hydrate_tick_unguarded(d, tick) ==
    LET cfg == d.files["scenario.json"].content.cfg
        registry == build_registry(cfg)
        initial_tensor == assemble_initial_tensor(cfg, registry)
        replayed == IF d.files["deltas.parquet"].exists
                    THEN ApplyRows(initial_tensor, d.files["deltas.parquet"].content, tick)
                    ELSE initial_tensor
    IN  [k \in DOMAIN replayed |->
            Clip(replayed[k], registry.bounds[k[3]].lo, registry.bounds[k[3]].hi)]

\* hydrate_tick without the closing clamp to the registered bounds
hydrate_tick_unclamped(d, tick) ==
    LET cfg == d.files["scenario.json"].content.cfg
        registry == build_registry(cfg)
        initial_tensor == assemble_initial_tensor(cfg, registry)
    IN  IF d.files["deltas.parquet"].exists /\ tick > 0
        THEN ApplyRows(initial_tensor, d.files["deltas.parquet"].content, tick)
        ELSE initial_tensor

\* hydrator.py lines 18-50; the manifest is never read
hydrate_tick(d, tick) ==
    LET cfg == d.files["scenario.json"].content.cfg
        registry == build_registry(cfg)
        initial_tensor == assemble_initial_tensor(cfg, registry)
        replayed == IF d.files["deltas.parquet"].exists /\ tick > 0
                    THEN ApplyRows(initial_tensor, d.files["deltas.parquet"].content, tick)
                    ELSE initial_tensor
    IN  [k \in DOMAIN replayed |->
            Clip(replayed[k], registry.bounds[k[3]].lo, registry.bounds[k[3]].hi)]

\* the largest tick of a non-empty journal
MaxTickOf(rows) ==
    CHOOSE m \in {rows[n].tick : n \in 1..Len(rows)} :
        \A n \in 1..Len(rows) : rows[n].tick <= m

\* hydrator.py lines 67-74
get_tick_range(d) ==
    IF ~d.files["deltas.parquet"].exists THEN <<0, 0>>
    ELSE IF Len(d.files["deltas.parquet"].content) = 0 THEN <<0, 0>>
    ELSE <<0, MaxTickOf(d.files["deltas.parquet"].content)>>

(* -------------------------- environment view --------------------------- *)
\* agent_api.py lines 8-17: EnvironmentGrid.__init__ (tensor None)
NewGrid(d) ==
    LET cfg == d.files["scenario.json"].content.cfg
    IN  [loaded |-> FALSE, current_tick |-> 0,
         tensor |-> Zeros(cfg.world.height, cfg.world.width, ListLen(cfg.fields))]

\* agent_api.py lines 19-22
load_tick(v, d, tick) ==
    LET cfg == d.files["scenario.json"].content.cfg
    IN  [loaded |-> TRUE, current_tick |-> tick,
         tensor |-> replay_frame(d, tick, cfg.world.height, cfg.world.width,
                                 ListLen(build_registry(cfg).names))]

\* what a call hands back: a raised exception or a returned value
Raise(e) == [raised |-> e, value |-> <<>>]
Return(v) == [raised |-> "none", value |-> v]

\* agent_api.py lines 24-28
get_field(v, registry, h, w, field_name) ==
    IF ~v.loaded THEN Raise("ValueError")
    ELSE IF field_name \notin DOMAIN registry.indices THEN Raise("KeyError")
    ELSE Return(Slice(v.tensor, h, w, registry.indices[field_name]))

\* get_cell without the "tensor is None" test: None is subscripted
get_cell_unchecked(v, registry, x, y, field_name) ==
    IF field_name \notin DOMAIN registry.indices THEN Raise("KeyError")
    ELSE IF ~v.loaded THEN Raise("TypeError")
    ELSE Return(v.tensor[<<y, x, registry.indices[field_name]>>])

\* agent_api.py lines 30-34
get_cell(v, registry, x, y, field_name) ==
    IF ~v.loaded THEN Raise("ValueError")
    ELSE IF field_name \notin DOMAIN registry.indices THEN Raise("KeyError")
    ELSE Return(v.tensor[<<y, x, registry.indices[field_name]>>])

\* agent_api.py lines 36-40
get_all_fields_at(v, registry, x, y) ==
    IF ~v.loaded THEN Raise("ValueError")
    ELSE Return([n \in DOMAIN registry.indices |-> v.tensor[<<y, x, registry.indices[n]>>]])

\* agent_api.py lines 42-52
get_neighborhood(v, registry, h, w, x, y, radius) ==
    IF ~v.loaded THEN Raise("ValueError")
    ELSE LET y_min == Max(0, y - radius)
             y_max == Min(h, y + radius + 1)
             x_min == Max(0, x - radius)
             x_max == Min(w, x + radius + 1)
         IN  Return([n \in DOMAIN registry.indices |->
                       [c \in (y_min..(y_max - 1)) \X (x_min..(x_max - 1)) |->
                          v.tensor[<<c[1], c[2], registry.indices[n]>>]]])

(* ------------------------------ actions -------------------------------- *)
Runs == DOMAIN eng

\* no agent-side object exists; no call has returned
NoAgents == [kind |-> "none"]
NoCall == [op |-> "none", raised |-> "none", value |-> <<>>]

NoHydration(d) ==
    LET cfg == d.files["scenario.json"].content.cfg
    IN  [called |-> FALSE, tick |-> 0, status |-> "none",
         tensor |-> Zeros(cfg.world.height, cfg.world.width, ListLen(cfg.fields))]

\* one iteration of run_headless's loop
RunTick(r) ==
    /\ eng[r].pc = "loop"
    /\ eng[r].t < eng[r].ticks
    /\ LET e2 == TickEngine(eng[r])
       IN  /\ eng' = [eng EXCEPT ![r] = e2]
           /\ disk' = [disk EXCEPT ![r] = TickDisk(eng[r], disk[r], e2)]
    /\ UNCHANGED <<hyd, view, agt, ret>>

\* the loop is over: journal and metrics tables are written
WriteTables(r) ==
    /\ eng[r].pc = "loop"
    /\ eng[r].t = eng[r].ticks
    /\ eng' = [eng EXCEPT ![r].pc = "checksums"]
    /\ disk' = [disk EXCEPT ![r] = TablesDisk(eng[r], disk[r])]
    /\ UNCHANGED <<hyd, view, agt, ret>>

WriteChecksums(r) ==
    /\ eng[r].pc = "checksums"
    /\ eng' = [eng EXCEPT ![r].pc = "manifest"]
    /\ disk' = [disk EXCEPT ![r] = write_checksums(disk[r])]
    /\ UNCHANGED <<hyd, view, agt, ret>>

RewriteManifest(r) ==
    /\ eng[r].pc = "manifest"
    /\ eng' = [eng EXCEPT ![r].pc = "done",
                          ![r].manifest = [@ EXCEPT !.has_runtime_s = TRUE]]
    /\ disk' = [disk EXCEPT ![r] = FinalManifestDisk(eng[r], disk[r])]
    /\ UNCHANGED <<hyd, view, agt, ret>>

\* the host halts run_headless between two steps, after at least one tick
Halt(r) ==
    /\ eng[r].pc \in {"loop", "checksums", "manifest"}
    /\ eng[r].t >= 1
    /\ eng' = [eng EXCEPT ![r].pc = "halted"]
    /\ UNCHANGED <<disk, hyd, view, agt, ret>>

Returned(r) == eng[r].pc \in {"done", "halted"}

\* hydrate_tick(run_dir, tick), called once the engine no longer runs
HydrateTick(r, tick) ==
    /\ Returned(r)
    /\ hyd' = [hyd EXCEPT ![r] = [called |-> TRUE, tick |-> tick, status |-> "ok",
                                  tensor |-> hydrate_tick(disk[r], tick)]]
    /\ UNCHANGED <<eng, disk, view, agt, ret>>

\* get_tick_range(run_dir), called once the engine no longer runs
GetTickRange(r) ==
    /\ Returned(r)
    /\ ret' = [op |-> "get_tick_range", raised |-> "none", value |-> get_tick_range(disk[r])]
    /\ UNCHANGED <<eng, disk, hyd, view, agt>>

\* EnvironmentGrid(run_dir).load_tick(tick)
LoadTick(r, tick) ==
    /\ Returned(r)
    /\ LET v2 == load_tick(view[r], disk[r], tick)
       IN  /\ view' = [view EXCEPT ![r] = v2]
           /\ ret' = [op |-> "load_tick", raised |-> "none", value |-> v2.tensor]
    /\ UNCHANGED <<eng, disk, hyd, agt>>

\* the arguments the view's accessors are called with
ViewCfg(r) == disk[r].files["scenario.json"].content.cfg
ViewCells(r) == {<<0, 0>>, <<ViewCfg(r).world.height - 1, ViewCfg(r).world.width - 1>>}
ViewNames(r) == DOMAIN build_registry(ViewCfg(r)).indices \cup {"salinity"}
Called(op, outcome) == [op |-> op, raised |-> outcome.raised, value |-> outcome.value]

\* env.get_field(field_name)
GetField(r, n) ==
    /\ Returned(r)
    /\ ret' = Called("get_field",
                     get_field(view[r], build_registry(ViewCfg(r)),
                               ViewCfg(r).world.height, ViewCfg(r).world.width, n))
    /\ UNCHANGED <<eng, disk, hyd, view, agt>>

\* env.get_cell(x, y, field_name)
GetCell(r, x, y, n) ==
    /\ Returned(r)
    /\ ret' = Called("get_cell", get_cell(view[r], build_registry(ViewCfg(r)), x, y, n))
    /\ UNCHANGED <<eng, disk, hyd, view, agt>>

\* env.get_all_fields_at(x, y)
GetAllFieldsAt(r, x, y) ==
    /\ Returned(r)
    /\ ret' = Called("get_all_fields_at",
                     get_all_fields_at(view[r], build_registry(ViewCfg(r)), x, y))
    /\ UNCHANGED <<eng, disk, hyd, view, agt>>

\* env.get_neighborhood(x, y, radius)
GetNeighborhood(r, x, y, radius) ==
    /\ Returned(r)
    /\ ret' = Called("get_neighborhood",
                     get_neighborhood(view[r], build_registry(ViewCfg(r)),
                                      ViewCfg(r).world.height, ViewCfg(r).world.width,
                                      x, y, radius))
    /\ UNCHANGED <<eng, disk, hyd, view, agt>>

\* test_determinism: both finished runs are hydrated at the same tick
HydrateBoth(tick) ==
    /\ \A r \in Runs : eng[r].pc = "done"
    /\ hyd' = [r \in Runs |-> [called |-> TRUE, tick |-> tick, status |-> "ok",
                               tensor |-> hydrate_tick(disk[r], tick)]]
    /\ UNCHANGED <<eng, disk, view, agt, ret>>

(* --------------------------- specifications ---------------------------- *)
\* load_scenario, optionally a caller's change of the seed, then run_headless
Loaded == {[cfg |-> [LoadScenario(b, s1).cfg EXCEPT !.seed = s2],
            hash |-> LoadScenario(b, s1).hash] :
              b \in Scenarios, s1 \in {1337}, s2 \in Seeds}
            \cup {LoadScenario(b, 9999) : b \in Scenarios}

InitRuns(ids) ==
    \E loaded \in Loaded, ticks \in 0..MaxTicks :
        /\ eng = [r \in ids |-> StartEngine(loaded, ticks, <<"run", r>>, r)]
        /\ disk = [r \in ids |-> StartDisk(StartEngine(loaded, ticks, <<"run", r>>, r))]
        /\ hyd = [r \in ids |-> NoHydration(StartDisk(StartEngine(loaded, ticks, <<"run", r>>, r)))]
        /\ view = [r \in ids |-> NewGrid(StartDisk(StartEngine(loaded, ticks, <<"run", r>>, r)))]
        /\ agt = NoAgents
        /\ ret = NoCall

Init == InitRuns({1})

Next ==
    \/ RunTick(1)
    \/ WriteTables(1)
    \/ WriteChecksums(1)
    \/ RewriteManifest(1)
    \/ Halt(1)
    \/ \E tick \in 0..MaxTicks : HydrateTick(1, tick)
    \/ GetTickRange(1)

Spec == Init /\ [][Next]_vars

(* A run observed through the agent-facing view instead of the hydrator.   *)
InitView == InitRuns({1})

NextView ==
    \/ RunTick(1)
    \/ WriteTables(1)
    \/ WriteChecksums(1)
    \/ RewriteManifest(1)
    \/ \E tick \in 0..MaxTicks : LoadTick(1, tick)

SpecView == InitView /\ [][NextView]_vars

(* The view's accessors called on short runs, before and after load_tick.   *)
AccessRuns ==
    {[loaded |-> loaded, ticks |-> ticks] :
        loaded \in {LoadScenario(ScenarioDefault, 1337), LoadScenario(ScenarioTracer, 9999)},
        ticks \in 0..1}

InitAccess ==
    \E run \in AccessRuns :
        LET e == StartEngine(run.loaded, run.ticks, <<"run", 1>>, 1)
        IN  /\ eng = << e >>
            /\ disk = << StartDisk(e) >>
            /\ hyd = << NoHydration(StartDisk(e)) >>
            /\ view = << NewGrid(StartDisk(e)) >>
            /\ agt = NoAgents
            /\ ret = NoCall

NextAccess ==
    \/ RunTick(1)
    \/ WriteTables(1)
    \/ WriteChecksums(1)
    \/ RewriteManifest(1)
    \/ \E tick \in 0..MaxTicks : LoadTick(1, tick)
    \/ \E n \in ViewNames(1) : GetField(1, n)
    \/ \E c \in ViewCells(1), n \in ViewNames(1) : GetCell(1, c[2], c[1], n)
    \/ \E c \in ViewCells(1) : GetAllFieldsAt(1, c[2], c[1])
    \/ \E c \in ViewCells(1) : GetNeighborhood(1, c[2], c[1], 1)

SpecAccess == InitAccess /\ [][NextAccess]_vars

(* Two runs of the same scenario and tick count, in separate run            *)
(* directories, with their own labels and creation times.                   *)
InitTwin == InitRuns({1, 2})

NextTwin ==
    \/ \E r \in {1, 2} :
        \/ RunTick(r)
        \/ WriteTables(r)
        \/ WriteChecksums(r)
        \/ RewriteManifest(r)
    \/ \E tick \in 0..MaxTicks : HydrateBoth(tick)

SpecTwin == InitTwin /\ [][NextTwin]_vars

(* hydrate_tick as a function of the run directory: the scenario snapshot  *)
(* of a run, and a delta journal holding any records that address cells of *)
(* the grid.                                                               *)
MaxRows == 2

JournalRows(cfg) ==
    {Row(t, c[2], c[1], i, dv) :
        t \in {0, 1},
        c \in {<<0, 0>>},
        i \in {0, ListLen(cfg.fields) - 1},
        dv \in {-Unit, 2 * Unit}}

Journals(cfg) ==
    UNION {[1..n -> JournalRows(cfg)] : n \in 1..MaxRows}

InitJournal ==
    \E b \in Scenarios, ticks \in {1} :
      \E j \in Journals(LoadScenario(b, 1337).cfg) :
        LET e == [StartEngine(LoadScenario(b, 1337), ticks, <<"run", 1>>, 1)
                    EXCEPT !.pc = "done"]
            d == [StartDisk(e) EXCEPT !.files["deltas.parquet"] = File(j)]
        IN  /\ eng = [r \in {1} |-> e]
            /\ disk = [r \in {1} |-> d]
            /\ hyd = [r \in {1} |-> NoHydration(d)]
            /\ view = [r \in {1} |-> NewGrid(d)]
            /\ agt = NoAgents
            /\ ret = NoCall

NextJournal == \E tick \in 0..MaxTicks : HydrateTick(1, tick)

SpecJournal == InitJournal /\ [][NextJournal]_vars

(* ============================ agent controller ========================= *)
(* Agent-side numbers are fixed point as well: urgency 8.0 is 8 * Unit,     *)
(* energy 10.0 is 10 * Unit.  Optional values are sets: {} is None.         *)
MaxProposals == 2
MaxCalls == 2

VetoUrgency == 8000
CriticalEnergy == 10000

\* band.py lines 26-32: ActionProposal; a None entry of a proposal list
Proposal(action, urgency, expected_value, band_id, params) ==
    [action |-> action, urgency |-> urgency, expected_value |-> expected_value,
     band_id |-> band_id, params |-> params]
NoneProposal == [none |-> TRUE]
IsNone(p) == "none" \in DOMAIN p

\* dict.get(key, default)
DictGet(d, key, default) == IF key \in DOMAIN d THEN d[key] ELSE default

\* arbiter.py lines 11-17
NewArbiter == [previous_action |-> {}, previous_band |-> {}, dominant_band_history |-> <<>>]

\* [p for proposals in all_proposals for p in proposals if p is not None]
RECURSIVE Flatten(_)
Flatten(all_proposals) ==
    IF all_proposals = <<>> THEN <<>>
    ELSE LET NotNone(p) == ~IsNone(p)
         IN  SelectSeq(Head(all_proposals), NotNone) \o Flatten(Tail(all_proposals))

\* the first element of a sequence that satisfies Test, as a set ({} if none)
FirstWhere(seq, Test(_)) ==
    LET hits == {n \in 1..Len(seq) : Test(seq[n])}
    IN  IF hits = {} THEN {}
        ELSE {seq[CHOOSE n \in hits : \A m \in hits : n <= m]}

Selection(p) == [action |-> p.action, band |-> p.band_id, proposal |-> p]

\* arbiter.py lines 73-78
check_safety_veto(proposals) ==
    LET Veto(p) == p.band_id = 2 /\ p.urgency > VetoUrgency
    IN  {Selection(p) : p \in FirstWhere(proposals, Veto)}

\* arbiter.py lines 80-89
check_energy_budget(proposals, agent_state) ==
    LET energy == DictGet(agent_state, "energy", 0)
        Hungry(p) == p.band_id = 1 /\ DictGet(p.params, "reason", "None") = "critical_hunger"
    IN  IF energy < CriticalEnergy
        THEN {Selection(p) : p \in FirstWhere(proposals, Hungry)}
        ELSE {}

\* previous_action, previous_band and the history after a selection
Remember(arb, sel) ==
    [previous_action |-> {sel.action}, previous_band |-> {sel.band},
     dominant_band_history |-> Append(arb.dominant_band_history, sel.band)]

Stay == [action |-> "STAY", band |-> 0, proposal |-> NoneProposal]

\* the energy rule tried before the safety veto
select_action_energy_first(arb, all_proposals, agent_state, pick) ==
    LET flat_proposals == Flatten(all_proposals)
        safety_veto == check_safety_veto(flat_proposals)
        energy_constraint == check_energy_budget(flat_proposals, agent_state)
    IN  IF all_proposals = <<>> \/ \A n \in 1..Len(all_proposals) : all_proposals[n] = <<>>
        THEN [arbiter |-> arb, result |-> Stay]
        ELSE IF flat_proposals = <<>> THEN [arbiter |-> arb, result |-> Stay]
        ELSE IF energy_constraint # {}
        THEN LET sel == CHOOSE x \in energy_constraint : TRUE
             IN  [arbiter |-> Remember(arb, sel), result |-> sel]
        ELSE IF safety_veto # {}
        THEN LET sel == CHOOSE x \in safety_veto : TRUE
             IN  [arbiter |-> Remember(arb, sel), result |-> sel]
        ELSE LET sel == Selection(flat_proposals[pick])
             IN  [arbiter |-> Remember(arb, sel), result |-> sel]

\* select_action whose veto test reads urgency >= 8.0 and skips the band test
select_action_loose_veto(arb, all_proposals, agent_state, pick) ==
    LET flat_proposals == Flatten(all_proposals)
        Veto(p) == p.urgency >= VetoUrgency
        safety_veto == {Selection(p) : p \in FirstWhere(flat_proposals, Veto)}
        energy_constraint == check_energy_budget(flat_proposals, agent_state)
    IN  IF all_proposals = <<>> \/ \A n \in 1..Len(all_proposals) : all_proposals[n] = <<>>
        THEN [arbiter |-> arb, result |-> Stay]
        ELSE IF flat_proposals = <<>> THEN [arbiter |-> arb, result |-> Stay]
        ELSE IF safety_veto # {}
        THEN LET sel == CHOOSE x \in safety_veto : TRUE
             IN  [arbiter |-> Remember(arb, sel), result |-> sel]
        ELSE IF energy_constraint # {}
        THEN LET sel == CHOOSE x \in energy_constraint : TRUE
             IN  [arbiter |-> Remember(arb, sel), result |-> sel]
        ELSE LET sel == Selection(flat_proposals[pick])
             IN  [arbiter |-> Remember(arb, sel), result |-> sel]

\* arbiter.py lines 19-66.  pick is the index rng.choice draws: the softmax
\* (or uniform) weights are all positive, so every index can be drawn
select_action(arb, all_proposals, agent_state, pick) ==
    LET flat_proposals == Flatten(all_proposals)
        safety_veto == check_safety_veto(flat_proposals)
        energy_constraint == check_energy_budget(flat_proposals, agent_state)
    IN  IF all_proposals = <<>> \/ \A n \in 1..Len(all_proposals) : all_proposals[n] = <<>>
        THEN [arbiter |-> arb, result |-> Stay]
        ELSE IF flat_proposals = <<>> THEN [arbiter |-> arb, result |-> Stay]
        ELSE IF safety_veto # {}
        THEN LET sel == CHOOSE x \in safety_veto : TRUE
             IN  [arbiter |-> Remember(arb, sel), result |-> sel]
        ELSE IF energy_constraint # {}
        THEN LET sel == CHOOSE x \in energy_constraint : TRUE
             IN  [arbiter |-> Remember(arb, sel), result |-> sel]
        ELSE LET sel == Selection(flat_proposals[pick])
             IN  [arbiter |-> Remember(arb, sel), result |-> sel]

\* arbiter.py lines 101-105
reset_history(arb) ==
    [arb EXCEPT !.previous_action = {}, !.previous_band = {},
                !.dominant_band_history = <<>>]

\* the indices rng.choice can draw for these proposals
Picks(all_proposals) == 1..Max(1, Len(Flatten(all_proposals)))

(* -------------------------- physiological band ------------------------- *)
PASSIVE_HUNGER_RATE == 8
PASSIVE_THIRST_RATE == 12
PASSIVE_FATIGUE_RATE == 4
MOVE_ENERGY_COST == 1000
MOVE_HUNGER_COST == 10
MOVE_THIRST_COST == 5
MOVE_FATIGUE_COST == 5
FORAGE_ENERGY_COST == 1000
FORAGE_FATIGUE_COST == 15
REST_FATIGUE_RECOVERY == 100
FOCUS_SWITCH_THRESHOLD == 200
FOCUS_BUILDUP_RATE == 100
FOCUS_HYSTERESIS_BONUS == 300

Moves == {"MOVE_NORTH", "MOVE_SOUTH", "MOVE_EAST", "MOVE_WEST"}
\* band.py lines 7-24: the actions the agent's code tells apart, and FLEE for
\* the nine it treats alike
Actions == Moves \cup {"STAY", "FORAGE", "DRINK", "REST", "FLEE"}

\* a 2-D array: its shape and its cells, <<row, column>> from 0
Patch(rows, cols, at) == [rows |-> rows, cols |-> cols, at |-> at]
ZeroPatch(rows, cols) == Patch(rows, cols, [c \in Cells(rows, cols) |-> 0])

\* band_physiological.py lines 38-65 over band.py lines 42-51
NewPhysiologicalBand(band_id, initial_gain) ==
    [band_id |-> band_id, urgency |-> 0, gain |-> initial_gain,
     frustration_accumulator |-> 0, memory |-> <<>>,
     internal_state |->
        [hunger |-> 0, thirst |-> 0, fatigue |-> 0, temperature_stress |-> 0,
         energy |-> 100 * Unit, hydration |-> 100 * Unit,
         current_focus |-> "None", focus_strength |-> 0, ticks_since_satisfaction |-> 0,
         desperation_level |-> 0, search_radius |-> 2, risk_tolerance |-> 100,
         last_action |-> "None", successful_forages |-> 0, failed_searches |-> 0]]

\* band_physiological.py lines 67-80.  neighborhood_vegetation and
\* neighborhood_hydration are sets: {} when the key is missing (None)
perceive(env_state, agent_state) ==
    [local_temperature |-> DictGet(env_state, "temperature", Unit \div 2),
     local_hydration |-> DictGet(env_state, "hydration", Unit \div 2),
     local_vegetation |-> DictGet(env_state, "vegetation", 0),
     local_threat |-> DictGet(env_state, "threat", 0),
     neighborhood_threat |-> DictGet(env_state, "neighborhood_threat", ZeroPatch(5, 5)),
     neighborhood_vegetation |-> DictGet(env_state, "neighborhood_vegetation", {}),
     neighborhood_hydration |-> DictGet(env_state, "neighborhood_hydration", {}),
     energy |-> DictGet(agent_state, "energy", 0),
     position |-> DictGet(agent_state, "position", <<0, 0>>),
     tick |-> DictGet(agent_state, "tick", 0)]

\* band_physiological.py lines 199-206
apply_passive_depletion(band) ==
    [band EXCEPT
       !.internal_state.hunger = Min(Unit, @ + PASSIVE_HUNGER_RATE),
       !.internal_state.thirst = Min(Unit, @ + PASSIVE_THIRST_RATE),
       !.internal_state.fatigue = Min(Unit, @ + PASSIVE_FATIGUE_RATE)]

\* the drives dict in insertion order, as name/value pairs
DriveOrder == <<"hunger", "thirst", "fatigue", "threat">>

\* max(d, key=d.get) or min(d, key=d.get): the first key, in insertion
\* order, that holds the largest (smallest) value
FirstMax(keys, val) ==
    keys[CHOOSE n \in 1..Len(keys) :
            /\ \A m \in 1..Len(keys) : val[keys[m]] <= val[keys[n]]
            /\ \A m \in 1..(n - 1) : val[keys[m]] < val[keys[n]]]
FirstMin(keys, val) ==
    keys[CHOOSE n \in 1..Len(keys) :
            /\ \A m \in 1..Len(keys) : val[keys[m]] >= val[keys[n]]
            /\ \A m \in 1..(n - 1) : val[keys[m]] > val[keys[n]]]

\* band_physiological.py lines 208-272: returns the band with its focus
\* updated, and the pair (current_focus, dominant_urgency)
compute_focus(band, perception) ==
    LET st == band.internal_state
        hunger == st.hunger
        thirst == st.thirst
        fatigue == st.fatigue
        threat == perception.local_threat
        base == [d \in {"hunger", "thirst", "fatigue", "threat"} |->
                   IF d = "hunger" THEN Mul(hunger, 2000)
                   ELSE IF d = "thirst" THEN Mul(thirst, 1300)
                   ELSE IF d = "fatigue" THEN Mul(fatigue, 800)
                   ELSE Mul(threat, 10000)]
        max_drive == Max(Max(base["hunger"], base["thirst"]), Max(base["fatigue"], base["threat"]))
        hysteresis_multiplier == IF max_drive > 2000 THEN 300
                                 ELSE IF max_drive > 1500 THEN 600 ELSE 1000
        hysteresis_bonus == Mul(Mul(st.focus_strength, FOCUS_HYSTERESIS_BONUS),
                                hysteresis_multiplier)
        drives == [d \in DOMAIN base |->
                     IF d = st.current_focus THEN base[d] + hysteresis_bonus ELSE base[d]]
        dominant_drive == FirstMax(DriveOrder, drives)
        dominant_urgency == drives[dominant_drive]
        buildup_rate == IF max_drive < 1500 THEN FOCUS_BUILDUP_RATE
                        ELSE FOCUS_BUILDUP_RATE \div 2
        switch_threshold == Mul(FOCUS_SWITCH_THRESHOLD, hysteresis_multiplier)
        current_urgency == IF st.current_focus \in DOMAIN drives
                           THEN drives[st.current_focus] ELSE 0
        critical_drives == {d \in {"hunger", "thirst", "fatigue"} : st[d] > 900}
        next == IF dominant_drive = st.current_focus
                THEN [focus |-> st.current_focus,
                      strength |-> Min(Unit, st.focus_strength + buildup_rate)]
                ELSE IF critical_drives # {} /\ dominant_drive \in critical_drives
                THEN [focus |-> dominant_drive, strength |-> 200]
                ELSE IF dominant_urgency > current_urgency + switch_threshold
                THEN [focus |-> dominant_drive, strength |-> 300]
                ELSE [focus |-> st.current_focus, strength |-> st.focus_strength]
    IN  [band |-> [band EXCEPT !.internal_state.current_focus = next.focus,
                               !.internal_state.focus_strength = next.strength],
         focus |-> next.focus,
         focus_urgency |-> dominant_urgency]

\* band_physiological.py lines 274-294
compute_desperation(band) ==
    LET st == band.internal_state
        deficit_desperation == (Mul(st.hunger, st.hunger) + Mul(st.thirst, st.thirst)) \div 2
        time_desperation == Min(Unit, (st.ticks_since_satisfaction * Unit) \div 50)
        desperation == Max(deficit_desperation, time_desperation)
    IN  [band |-> [band EXCEPT
                     !.internal_state.desperation_level = desperation,
                     !.internal_state.search_radius = (2 * Unit + desperation * 8) \div Unit,
                     !.internal_state.risk_tolerance = 100 + desperation \div 2],
         desperation |-> desperation]

\* band_physiological.py lines 82-97: the band after the call; the value
\* returned is its urgency field
compute_urgency(band, perception) ==
    LET Desperate(focused) ==
            LET Urgent(desperate) ==
                    LET urgency == Mul(focused.focus_urgency, Unit + desperate.desperation)
                    IN  [desperate.band EXCEPT !.urgency = Mul(urgency, band.gain)]
            IN  With(compute_desperation(focused.band), Urgent)
    IN  With(compute_focus(apply_passive_depletion(band), perception), Desperate)

MoveOrder == <<"MOVE_NORTH", "MOVE_SOUTH", "MOVE_EAST", "MOVE_WEST">>

\* rng.choice(seq): rnd is the generator's draw
Choice(seq, rnd) == seq[((rnd - 1) % Len(seq)) + 1]

\* band_physiological.py lines 375-389
find_safest_direction(threat_field) ==
    IF threat_field.rows * threat_field.cols = 0 THEN "STAY"
    ELSE LET center == threat_field.rows \div 2
             directions ==
                 [a \in Moves |->
                    IF a = "MOVE_NORTH"
                    THEN (IF center > 0 THEN threat_field.at[<<center - 1, center>>] ELSE Unit)
                    ELSE IF a = "MOVE_SOUTH"
                    THEN (IF center < threat_field.rows - 1
                          THEN threat_field.at[<<center + 1, center>>] ELSE Unit)
                    ELSE IF a = "MOVE_EAST"
                    THEN (IF center < threat_field.cols - 1
                          THEN threat_field.at[<<center, center + 1>>] ELSE Unit)
                    ELSE (IF center > 0 THEN threat_field.at[<<center, center - 1>>] ELSE Unit)]
         IN  FirstMin(MoveOrder, directions)

\* lines 398-409 and 436-447: the cardinal neighbours the array has
GradientDirections(arr) ==
    LET center_y == arr.rows \div 2
        center_x == arr.cols \div 2
        Has(a) == IF a = "MOVE_NORTH" THEN center_y > 0
                  ELSE IF a = "MOVE_SOUTH" THEN center_y < arr.rows - 1
                  ELSE IF a = "MOVE_EAST" THEN center_x < arr.cols - 1
                  ELSE center_x > 0
    IN  [keys |-> SelectSeq(MoveOrder, Has),
         val |-> [a \in {m \in Moves : Has(m)} |->
                    IF a = "MOVE_NORTH" THEN arr.at[<<center_y - 1, center_x>>]
                    ELSE IF a = "MOVE_SOUTH" THEN arr.at[<<center_y + 1, center_x>>]
                    ELSE IF a = "MOVE_EAST" THEN arr.at[<<center_y, center_x + 1>>]
                    ELSE arr.at[<<center_y, center_x - 1>>]],
         current |-> arr.at[<<center_y, center_x>>]]

\* band_physiological.py lines 391-427
find_vegetation_direction(band, perception, rnd) ==
    IF perception.neighborhood_vegetation = {} THEN Choice(MoveOrder, rnd)
    ELSE LET neighborhood_veg == CHOOSE a \in perception.neighborhood_vegetation : TRUE
         IN  IF neighborhood_veg.rows * neighborhood_veg.cols = 0 THEN Choice(MoveOrder, rnd)
             ELSE LET d == GradientDirections(neighborhood_veg)
                      desperation == band.internal_state.desperation_level
                      gradient_threshold == Mul(30, Unit - Mul(desperation, 700))
                  IN  IF d.keys = <<>> THEN "STAY"
                      ELSE LET best_direction == FirstMax(d.keys, d.val)
                           IN  IF d.val[best_direction] > d.current + gradient_threshold
                               THEN best_direction
                               ELSE IF desperation > 500 THEN best_direction
                               ELSE Choice(d.keys, rnd)

\* band_physiological.py lines 429-457
find_water_direction(band, perception, rnd) ==
    IF perception.neighborhood_hydration = {} THEN Choice(MoveOrder, rnd)
    ELSE LET neighborhood_hyd == CHOOSE a \in perception.neighborhood_hydration : TRUE
         IN  IF neighborhood_hyd.rows * neighborhood_hyd.cols = 0 THEN Choice(MoveOrder, rnd)
             ELSE LET d == GradientDirections(neighborhood_hyd)
                  IN  IF d.keys = <<>> THEN "STAY"
                      ELSE LET best_direction == FirstMax(d.keys, d.val)
                           IN  IF d.val[best_direction] > d.current + 50
                               THEN best_direction
                               ELSE Choice(d.keys, rnd)

\* band_physiological.py lines 298-309
propose_flee_action(band, perception, urgency) ==
    << Proposal(find_safest_direction(perception.neighborhood_threat), urgency, Unit,
                band.band_id,
                [reason |-> "flee_predator", threat_level |-> perception.local_threat]) >>

\* band_physiological.py lines 311-338
propose_hunger_action(band, perception, urgency, desperation, rnd) ==
    LET local_veg == perception.local_vegetation
        acceptable_threshold == 300 - Mul(desperation, 200)
    IN  IF local_veg > acceptable_threshold
        THEN << Proposal("FORAGE", urgency, local_veg * 5, band.band_id,
                         [food_quality |-> local_veg, desperate |-> desperation > 500]) >>
        ELSE << Proposal(find_vegetation_direction(band, perception, rnd),
                         Mul(urgency, Unit + desperation \div 2), Unit, band.band_id,
                         [searching_food |-> TRUE, desperation |-> desperation,
                          search_radius |-> band.internal_state.search_radius]) >>

\* band_physiological.py lines 340-361
propose_thirst_action(band, perception, urgency, desperation, rnd) ==
    LET local_hydration == perception.local_hydration
    IN  IF local_hydration > 700
        THEN << Proposal("DRINK", urgency, local_hydration * 4, band.band_id,
                         [water_quality |-> local_hydration]) >>
        ELSE << Proposal(find_water_direction(band, perception, rnd), urgency, Unit,
                         band.band_id, [searching_water |-> TRUE]) >>

\* band_physiological.py lines 363-371
propose_rest_action(band, perception, urgency) ==
    << Proposal("REST", urgency, Unit \div 2, band.band_id,
                [fatigue_level |-> band.internal_state.fatigue]) >>

\* a band that is content whatever it is focused on
propose_actions_always_content(band, perception, rnd) ==
    << Proposal("STAY", 100, 0, band.band_id, [reason |-> "content"]) >>

\* band_physiological.py lines 99-122
propose_actions(band, perception, rnd) ==
    LET focus == band.internal_state.current_focus
        urgency == band.urgency
        desperation == band.internal_state.desperation_level
    IN  IF focus = "threat" THEN propose_flee_action(band, perception, urgency)
        ELSE IF focus = "hunger"
        THEN propose_hunger_action(band, perception, urgency, desperation, rnd)
        ELSE IF focus = "thirst"
        THEN propose_thirst_action(band, perception, urgency, desperation, rnd)
        ELSE IF focus = "fatigue" THEN propose_rest_action(band, perception, urgency)
        ELSE << Proposal("STAY", 100, 0, band.band_id, [reason |-> "content"]) >>

\* band_physiological.py lines 124-186
update_state(band, perception, action_taken, outcome) ==
    LET st == [band.internal_state EXCEPT !.last_action = action_taken]
        local_veg == perception.local_vegetation
        local_hydration == perception.local_hydration
        acted ==
            IF action_taken \in Moves
            THEN [st EXCEPT !.energy = Max(0, @ - MOVE_ENERGY_COST),
                            !.hunger = Min(Unit, @ + MOVE_HUNGER_COST),
                            !.thirst = Min(Unit, @ + MOVE_THIRST_COST),
                            !.fatigue = Min(Unit, @ + MOVE_FATIGUE_COST)]
            ELSE IF action_taken = "FORAGE"
            THEN LET paid == [st EXCEPT !.energy = Max(0, @ - FORAGE_ENERGY_COST),
                                        !.fatigue = Min(Unit, @ + FORAGE_FATIGUE_COST)]
                 IN  IF local_veg > 200
                     THEN [paid EXCEPT !.hunger = Max(0, @ - Mul(local_veg, 200)),
                                       !.energy = Min(100 * Unit, @ + local_veg * 10),
                                       !.successful_forages = @ + 1,
                                       !.ticks_since_satisfaction = 0]
                     ELSE [paid EXCEPT !.failed_searches = @ + 1]
            ELSE IF action_taken = "DRINK"
            THEN (IF local_hydration > 700
                  THEN [st EXCEPT !.thirst = Max(0, @ - (local_hydration - 700) \div 2),
                                  !.ticks_since_satisfaction = 0]
                  ELSE st)
            ELSE IF action_taken = "REST"
            THEN [st EXCEPT !.fatigue = Max(0, @ - REST_FATIGUE_RECOVERY),
                            !.hunger = Min(Unit, @ + PASSIVE_HUNGER_RATE \div 2)]
            ELSE st
        unsatisfied == \/ action_taken \notin {"FORAGE", "DRINK"}
                       \/ (action_taken = "FORAGE" /\ local_veg < 200)
                       \/ (action_taken = "DRINK" /\ local_hydration < 700)
        counted == IF unsatisfied
                   THEN [acted EXCEPT !.ticks_since_satisfaction = @ + 1] ELSE acted
    IN  [band EXCEPT
           !.internal_state = counted,
           !.frustration_accumulator =
               IF counted.desperation_level > 600 THEN Min(Unit, @ + 50) ELSE Max(0, @ - 20)]

\* band_physiological.py lines 188-195
compute_learning_signal(band, perception, action, outcome) ==
    IF band.internal_state.current_focus = "hunger" /\ action = "FORAGE"
    THEN perception.local_vegetation \div 2
    ELSE 0

\* band.py lines 92-98: the scalar entries of a perception or an outcome
compress_perception(perception) ==
    [k \in DOMAIN perception \ {"neighborhood_threat", "neighborhood_vegetation",
                                 "neighborhood_hydration", "position"} |-> perception[k]]
compress_outcome(outcome) ==
    [k \in {j \in DOMAIN outcome \ {"new_position", "old_position"} :
               j = "dominant_band" => outcome[j] # {}}
        |-> outcome[k]]

MaxMemories == 1000

\* the sets of k of the indices 1..n
RECURSIVE IndexSets(_, _)
IndexSets(n, k) ==
    IF k = 0 THEN {{}}
    ELSE UNION {{c \cup {i} : i \in {j \in 1..n : \A m \in c : j > m}} :
                  c \in IndexSets(n, k - 1)}

\* the entries rng.choice may evict when the memory is over capacity
DropSets(memory, max_memories) ==
    IF Len(memory) > max_memories
    THEN IndexSets(Len(memory), Len(memory) - max_memories)
    ELSE {{}}

\* _decay_memory without the eviction
decay_memory_keep_all(memory, max_memories, drop) == memory

\* band.py lines 100-110: the entries rng.choice kept, by ascending index
decay_memory(memory, max_memories, drop) ==
    IF Len(memory) > max_memories
    THEN LET Nth(k) == CHOOSE n \in k..(k + Cardinality(drop)) :
                          n \notin drop /\ n - Cardinality({d \in drop : d < n}) = k
         IN  [k \in 1..(Len(memory) - Cardinality(drop)) |-> memory[Nth(k)]]
    ELSE memory

\* band.py lines 78-90
write_memory(band, perception, action, outcome, affect, drop) ==
    LET memory_entry == [band_id |-> band.band_id,
                         tick |-> DictGet(outcome, "tick", 0),
                         perception_summary |-> compress_perception(perception),
                         action |-> action,
                         outcome_summary |-> compress_outcome(outcome),
                         affect |-> affect,
                         dominant_band |-> DictGet(outcome, "dominant_band", {band.band_id})]
    IN  [band EXCEPT !.memory = decay_memory(Append(@, memory_entry), MaxMemories, drop)]

\* band.py lines 140-146 with the default threshold 10.0 and increment 0.1
update_gain(band) ==
    IF band.frustration_accumulator > 10 * Unit
    THEN [band EXCEPT !.gain = Min(@ + 100, 5 * Unit), !.frustration_accumulator = 0]
    ELSE IF band.urgency < 100
    THEN [band EXCEPT !.gain = Max(@ - 50, 100)]
    ELSE band

(* select_action on one arbiter: the proposals of a physiological and a     *)
(* safety band and the agent state are the inputs; the arbiter is called    *)
(* up to MaxCalls times on them.                                            *)
ProposalPool ==
    { Proposal("FLEE", VetoUrgency + 1, Unit, 2, [reason |-> "flee_predator"]),
      Proposal("SEEK_SHELTER", VetoUrgency, Unit, 2, [reason |-> "unease"]),
      Proposal("FORAGE", 500, 3 * Unit, 1, [reason |-> "critical_hunger"]),
      Proposal("MOVE_NORTH", VetoUrgency + 1000, Unit, 1, [searching_food |-> TRUE]),
      Proposal("EXPLORE", 0, 0, 3, [reason |-> "content"]),
      NoneProposal }

ProposalLists == UNION {[1..n -> ProposalPool] : n \in 0..MaxProposals}

\* the proposals cut into the lists of two bands, or no band at all
AllProposalInputs ==
    {<<>>} \cup {<<[n \in 1..Min(k, Len(l)) |-> l[n]],
                    [n \in 1..(Len(l) - Min(k, Len(l))) |-> l[Min(k, Len(l)) + n]]>> :
                    l \in ProposalLists, k \in 0..MaxProposals}

AgentStateInputs ==
    {[energy |-> CriticalEnergy - 1, tick |-> 0], [energy |-> CriticalEnergy, tick |-> 0],
     [tick |-> 0]}

NoRuns == <<>>

InitArbiter ==
    \E ap \in AllProposalInputs, st \in AgentStateInputs :
        /\ eng = NoRuns /\ disk = NoRuns /\ hyd = NoRuns /\ view = NoRuns
        /\ agt = [kind |-> "arbiter", arbiter |-> NewArbiter, calls |-> 0,
                  all_proposals |-> ap, agent_state |-> st]
        /\ ret = NoCall

\* arbiter.select_action(bands, all_proposals, agent_state); calls counts the
\* calls since construction or the last reset_history
SelectAction(pick) ==
    /\ agt.kind = "arbiter"
    /\ agt.calls < MaxCalls
    /\ LET out == select_action(agt.arbiter, agt.all_proposals, agt.agent_state, pick)
       IN  /\ agt' = [agt EXCEPT !.arbiter = out.arbiter, !.calls = @ + 1]
           /\ ret' = [op |-> "select_action", raised |-> "none", value |-> out.result]
    /\ UNCHANGED <<eng, disk, hyd, view>>

\* arbiter.reset_history()
ResetHistory ==
    /\ agt.kind = "arbiter"
    /\ agt' = [agt EXCEPT !.arbiter = reset_history(@), !.calls = 0]
    /\ ret' = [op |-> "reset_history", raised |-> "none", value |-> <<>>]
    /\ UNCHANGED <<eng, disk, hyd, view>>

NextArbiter ==
    \/ \E pick \in Picks(agt.all_proposals) : SelectAction(pick)
    \/ ResetHistory

SpecArbiter == InitArbiter /\ [][NextArbiter]_vars

(* One physiological band driven through perceive -> compute_urgency ->     *)
(* propose_actions -> update_state, the proposed action being the one       *)
(* executed, for up to MaxCycles cycles.                                    *)
MaxCycles == 2

\* bands as BandedAgent builds them (gain 2.0), fresh or after some ticks
SeasonedBand(hunger, thirst, fatigue, focus, strength, since) ==
    [NewPhysiologicalBand(1, 2 * Unit) EXCEPT
       !.internal_state.hunger = hunger,
       !.internal_state.thirst = thirst,
       !.internal_state.fatigue = fatigue,
       !.internal_state.current_focus = focus,
       !.internal_state.focus_strength = strength,
       !.internal_state.ticks_since_satisfaction = since]

BandInputs ==
    { NewPhysiologicalBand(1, 2 * Unit),
      SeasonedBand(600, 300, 100, "hunger", 300, 10),
      SeasonedBand(200, 700, 100, "thirst", 500, 40),
      SeasonedBand(100, 100, 950, "fatigue", 200, 0),
      SeasonedBand(900, 300, 100, "hunger", 300, 45) }

\* simulation.py lines 91-98: the environment at the agent's cell
EnvState(hydration, vegetation, threat, patch) ==
    [temperature |-> Unit \div 2, hydration |-> hydration, vegetation |-> vegetation,
     movement_cost |-> 300, threat |-> threat, neighborhood_threat |-> patch]

\* a threat patch that falls off to the east
SlopePatch(rows, cols, top) ==
    Patch(rows, cols, [c \in Cells(rows, cols) |-> Max(0, top - 100 * c[2])])

EnvInputs ==
    {EnvState(hy, v, 0, ZeroPatch(3, 3)) : hy \in {500, 800}, v \in {0, 250, 600}}
        \cup {EnvState(500, 250, 900, SlopePatch(3, 3, 900)),
              EnvState(500, 150, 0, ZeroPatch(3, 3))}

InitBand ==
    \E band \in BandInputs, env_state \in EnvInputs :
        /\ eng = NoRuns /\ disk = NoRuns /\ hyd = NoRuns /\ view = NoRuns
        /\ agt = [kind |-> "band", pc |-> "perceive", cycles |-> 0,
                  band |-> band, before |-> band, env_state |-> env_state,
                  agent_state |-> [energy |-> 100 * Unit, position |-> <<0, 0>>, tick |-> 0],
                  perception |-> perceive(env_state, [tick |-> 0]),
                  proposals |-> <<>>]
        /\ ret = NoCall

\* band.perceive(env_state, agent_state)
Perceive ==
    /\ agt.kind = "band" /\ agt.pc = "perceive" /\ agt.cycles < MaxCycles
    /\ agt' = [agt EXCEPT !.pc = "urgency", !.before = agt.band,
                          !.perception = perceive(agt.env_state, agt.agent_state)]
    /\ ret' = [op |-> "perceive", raised |-> "none",
               value |-> perceive(agt.env_state, agt.agent_state)]
    /\ UNCHANGED <<eng, disk, hyd, view>>

\* band.compute_urgency(perception)
ComputeUrgency ==
    /\ agt.kind = "band" /\ agt.pc = "urgency"
    /\ LET b2 == compute_urgency(agt.band, agt.perception)
       IN  /\ agt' = [agt EXCEPT !.pc = "propose", !.band = b2]
           /\ ret' = [op |-> "compute_urgency", raised |-> "none", value |-> b2.urgency]
    /\ UNCHANGED <<eng, disk, hyd, view>>

\* band.propose_actions(perception)
ProposeActions(rnd) ==
    /\ agt.kind = "band" /\ agt.pc = "propose"
    /\ LET ps == propose_actions(agt.band, agt.perception, rnd)
       IN  /\ agt' = [agt EXCEPT !.pc = "update", !.proposals = ps]
           /\ ret' = [op |-> "propose_actions", raised |-> "none", value |-> ps]
    /\ UNCHANGED <<eng, disk, hyd, view>>

\* band.update_state(perception, action_taken, outcome) for the proposed action
UpdateState ==
    /\ agt.kind = "band" /\ agt.pc = "update"
    /\ LET action == agt.proposals[1].action
           outcome == [tick |-> agt.agent_state.tick]
       IN  agt' = [agt EXCEPT !.pc = "perceive", !.cycles = @ + 1,
                              !.agent_state.tick = @ + 1,
                              !.band = update_state(agt.band, agt.perception, action, outcome)]
    /\ ret' = [op |-> "update_state", raised |-> "none", value |-> <<>>]
    /\ UNCHANGED <<eng, disk, hyd, view>>

NextBand ==
    \/ Perceive
    \/ ComputeUrgency
    \/ \E rnd \in 1..4 : ProposeActions(rnd)
    \/ UpdateState

SpecBand == InitBand /\ [][NextBand]_vars

(* A band's episodic memory close to its capacity, written to until the   *)
(* first eviction.                                                        *)
\* the entry write_memory stores for a rest taken at a tick
RestEntry(tick) ==
    write_memory(NewPhysiologicalBand(1, 2 * Unit), [local_vegetation |-> 300], "REST",
                 [tick |-> tick], 0, {}).memory[1]

\* the band after its first ticks steps, every one of them a rest
RestedBand(ticks) ==
    [NewPhysiologicalBand(1, 2 * Unit) EXCEPT
       !.memory = <<>> \o [k \in 1..ticks |-> RestEntry(k - 1)]]

InitMemory ==
    \E ticks \in {0, MaxMemories - 2, MaxMemories} :
        /\ eng = NoRuns /\ disk = NoRuns /\ hyd = NoRuns /\ view = NoRuns
        /\ agt = [kind |-> "memory", tick |-> ticks, band |-> RestedBand(ticks)]
        /\ ret = NoCall

\* band.write_memory(perception, action, outcome, affect), as long as no entry
\* was evicted; drop is what rng.choice leaves out
WriteMemory(drop) ==
    /\ agt.kind = "memory" /\ agt.tick = Len(agt.band.memory)
    /\ agt' = [agt EXCEPT !.tick = @ + 1,
                          !.band = write_memory(agt.band, [local_vegetation |-> 300], "REST",
                                                [tick |-> agt.tick], 0, drop)]
    /\ ret' = [op |-> "write_memory", raised |-> "none", value |-> <<>>]
    /\ UNCHANGED <<eng, disk, hyd, view>>

NextMemory ==
    \E drop \in DropSets(Append(agt.band.memory, <<>>), MaxMemories) : WriteMemory(drop)

SpecMemory == InitMemory /\ [][NextMemory]_vars

(* ------------------------- flow accumulation --------------------------- *)
FlowH == 4
FlowW == 5
MaxSeed == 6

\* elevation rasters in thousandths, with ties, pits and ridges
Elevation(h, w, seed) ==
    Patch(h, w, [c \in Cells(h, w) |->
                   ((seed * (c[1] * w + c[2] + 1) ^ 2 + 3 * seed * c[1]) % 11) * 100])

\* initgen.py line 42
Offsets8 == << <<-1, -1>>, <<-1, 0>>, <<-1, 1>>, <<0, -1>>, <<0, 1>>, <<1, -1>>, <<1, 0>>, <<1, 1>> >>

WrapCell(E, c, offset) == <<(c[1] + offset[1]) % E.rows, (c[2] + offset[2]) % E.cols>>

\* initgen.py lines 46-53: the scan of the offsets from the i-th on, t being
\* the lowest cell found so far
RECURSIVE flow_target(_, _, _, _)
flow_target(E, c, i, t) ==
    IF i > Len(Offsets8) THEN t
    ELSE LET n == WrapCell(E, c, Offsets8[i])
         IN  flow_target(E, c, i + 1, IF E.at[n] < E.at[t] THEN n ELSE t)

\* the setup with every cell queued at once, whatever flows into it
flow_setup_empty_queue(E) ==
    [kind |-> "flow", pc |-> "loop", E |-> E,
     flow_to |-> [c \in Cells(E.rows, E.cols) |-> flow_target(E, c, 1, c)],
     indeg |-> [c \in Cells(E.rows, E.cols) |-> 0],
     q |-> CellSeq(E.rows, E.cols),
     acc |-> [c \in Cells(E.rows, E.cols) |-> 1],
     visited |-> [c \in Cells(E.rows, E.cols) |-> FALSE],
     popped |-> <<>>]

\* initgen.py lines 41-68: flow_to, indeg, the queue of the cells nothing
\* flows into in scan order, acc and visited; popped lists the cells taken
\* from the queue so far
flow_setup(E) ==
    LET cells == Cells(E.rows, E.cols)
        flow_to == [c \in cells |-> flow_target(E, c, 1, c)]
        indeg == [c \in cells |-> Cardinality({u \in cells : u # c /\ flow_to[u] = c})]
        Source(c) == indeg[c] = 0
    IN  [kind |-> "flow", pc |-> "loop", E |-> E, flow_to |-> flow_to, indeg |-> indeg,
         q |-> SelectSeq(CellSeq(E.rows, E.cols), Source),
         acc |-> [c \in cells |-> 1],
         visited |-> [c \in cells |-> FALSE],
         popped |-> <<>>]

\* initgen.py lines 69-77: one turn of the while loop
flow_pop(f) ==
    LET c == Head(f.q)
        t == f.flow_to[c]
        seen == [f EXCEPT !.q = Tail(@), !.visited[c] = TRUE, !.popped = Append(@, c)]
    IN  IF t = c THEN seen
        ELSE [seen EXCEPT !.acc[t] = @ + f.acc[c],
                          !.indeg[t] = @ - 1,
                          !.q = IF f.indeg[t] = 1 THEN Append(@, t) ELSE @]

InitFlow ==
    \E seed \in 1..MaxSeed :
        /\ eng = NoRuns /\ disk = NoRuns /\ hyd = NoRuns /\ view = NoRuns
        /\ agt = flow_setup(Elevation(FlowH, FlowW, seed))
        /\ ret = NoCall

\* while q: ...
FlowPop ==
    /\ agt.kind = "flow" /\ agt.pc = "loop" /\ agt.q # <<>>
    /\ agt' = flow_pop(agt)
    /\ ret' = [op |-> "pop", raised |-> "none", value |-> Head(agt.q)]
    /\ UNCHANGED <<eng, disk, hyd, view>>

\* initgen.py lines 78-79: return acc, closed
FlowReturn ==
    /\ agt.kind = "flow" /\ agt.pc = "loop" /\ agt.q = <<>>
    /\ agt' = [agt EXCEPT !.pc = "done"]
    /\ ret' = [op |-> "flow_accumulation", raised |-> "none",
               value |-> [acc |-> agt.acc,
                          closed |-> [c \in DOMAIN agt.visited |-> ~agt.visited[c]]]]
    /\ UNCHANGED <<eng, disk, hyd, view>>

NextFlow == FlowPop \/ FlowReturn

SpecFlow == InitFlow /\ [][NextFlow]_vars

(* --------------------------- depression fill -------------------------- *)
\* np.inf, above every elevation
Infinity == 1000000

Offsets4 == << <<-1, 0>>, <<1, 0>>, <<0, -1>>, <<0, 1>> >>

IsBorder(E, c) == c[1] \in {0, E.rows - 1} \/ c[2] \in {0, E.cols - 1}

\* the order of the heap's tuples (e, y, x)
TupleLess(a, b) ==
    \/ a[1] < b[1]
    \/ (a[1] = b[1] /\ a[2] < b[2])
    \/ (a[1] = b[1] /\ a[2] = b[2] /\ a[3] < b[3])

\* the while loop of flow_accumulation run to its end
RECURSIVE flow_run(_)
flow_run(f) == IF f.q = <<>> THEN f ELSE flow_run(flow_pop(f))

\* initgen.py lines 83-92: mask, the border tuples in scan order, water
lakes_setup(E, A, threshold) ==
    LET IsBorderTuple(t) == IsBorder(E, <<t[2], t[3]>>)
        tuples == [n \in 1..(E.rows * E.cols) |->
                     <<E.at[CellSeq(E.rows, E.cols)[n]],
                       CellSeq(E.rows, E.cols)[n][1], CellSeq(E.rows, E.cols)[n][2]>>]
    IN  [kind |-> "lakes", pc |-> "loop", E |-> E, A |-> A, threshold |-> threshold,
         border |-> SelectSeq(tuples, IsBorderTuple),
         water |-> [c \in Cells(E.rows, E.cols) |-> Infinity]]

\* the tuples pushed for the neighbours of the cell popped at level e, from
\* the i-th offset on: water does not change while they are pushed
RECURSIVE lakes_push(_, _, _, _)
lakes_push(l, e, c, i) ==
    IF i > Len(Offsets4) THEN <<>>
    ELSE LET n == WrapCell(l.E, c, Offsets4[i])
             we == Max(e, l.E.at[n])
         IN  (IF we < l.water[n] THEN << <<we, n[1], n[2]>> >> ELSE <<>>)
                \o lakes_push(l, e, c, i + 1)

\* a flood that ignores the ground it runs over
lakes_pop_level(l) ==
    LET Least(k) == \A j \in 1..Len(l.border) : ~TupleLess(l.border[j], l.border[k])
        k == CHOOSE j \in 1..Len(l.border) :
                Least(j) /\ \A i \in 1..(j - 1) : ~Least(i)
        e == l.border[k][1]
        c == <<l.border[k][2], l.border[k][3]>>
        rest == [j \in 1..(Len(l.border) - 1) |->
                    IF j < k THEN l.border[j] ELSE l.border[j + 1]]
        Level(i) == <<e, WrapCell(l.E, c, Offsets4[i])[1], WrapCell(l.E, c, Offsets4[i])[2]>>
    IN  IF l.water[c] <= e THEN [l EXCEPT !.border = <<>> \o rest]
        ELSE [l EXCEPT !.water[c] = e,
                       !.border = (<<>> \o rest)
                                     \o SelectSeq([i \in 1..4 |-> Level(i)],
                                                  LAMBDA t : e < l.water[<<t[2], t[3]>>])]

\* initgen.py lines 93-102: one turn of the while loop; the heap is the
\* list of its tuples and heappop takes the least of them
lakes_pop(l) ==
    LET Least(k) == \A j \in 1..Len(l.border) : ~TupleLess(l.border[j], l.border[k])
        k == CHOOSE j \in 1..Len(l.border) :
                Least(j) /\ \A i \in 1..(j - 1) : ~Least(i)
        e == l.border[k][1]
        c == <<l.border[k][2], l.border[k][3]>>
        rest == [j \in 1..(Len(l.border) - 1) |->
                    IF j < k THEN l.border[j] ELSE l.border[j + 1]]
    IN  IF l.water[c] <= e THEN [l EXCEPT !.border = <<>> \o rest]
        ELSE LET wet == [l EXCEPT !.water[c] = e]
             IN  [wet EXCEPT !.border = (<<>> \o rest) \o lakes_push(wet, e, c, 1)]

\* np.percentile(A, 100.0 * (1.0 - threshold)), times Unit: linear
\* interpolation between the two nearest ranks
percentile(A, threshold) ==
    LET cells == DOMAIN A
        n == Cardinality(cells)
        Rank(k) == CHOOSE v \in {A[c] : c \in cells} :
                      /\ Cardinality({c \in cells : A[c] < v}) < k
                      /\ Cardinality({c \in cells : A[c] <= v}) >= k
        position == (n - 1) * (Unit - threshold)
        lower == position \div Unit + 1
        upper == Min(lower + 1, n)
    IN  Rank(lower) * Unit + (position % Unit) * (Rank(upper) - Rank(lower))

\* initgen.py lines 103-108
lakes_result(l) ==
    LET lake_level == l.water
        inc == percentile(l.A, l.threshold)
        lake_mask == [c \in DOMAIN l.water |->
                        lake_level[c] > l.E.at[c] \/ l.A[c] * Unit >= inc]
    IN  [lake_mask |-> lake_mask,
         filled |-> [c \in DOMAIN l.water |->
                       IF lake_mask[c] THEN lake_level[c] ELSE l.E.at[c]],
         water |-> lake_level]

\* engine.py lines 59-60: lakes(E, A, threshold) on the accumulation of E
InitLakes ==
    \E seed \in 1..MaxSeed, threshold \in {150, 500} :
        /\ eng = NoRuns /\ disk = NoRuns /\ hyd = NoRuns /\ view = NoRuns
        /\ agt = lakes_setup(Elevation(FlowH, FlowW, seed),
                             flow_run(flow_setup(Elevation(FlowH, FlowW, seed))).acc,
                             threshold)
        /\ ret = NoCall

\* while border: ...
LakesPop ==
    /\ agt.kind = "lakes" /\ agt.pc = "loop" /\ agt.border # <<>>
    /\ agt' = lakes_pop(agt)
    /\ ret' = [op |-> "heappop", raised |-> "none", value |-> <<>>]
    /\ UNCHANGED <<eng, disk, hyd, view>>

\* return lake_mask, filled
LakesReturn ==
    /\ agt.kind = "lakes" /\ agt.pc = "loop" /\ agt.border = <<>>
    /\ agt' = [agt EXCEPT !.pc = "done"]
    /\ ret' = [op |-> "lakes", raised |-> "none", value |-> lakes_result(agt)]
    /\ UNCHANGED <<eng, disk, hyd, view>>

NextLakes == LakesPop \/ LakesReturn

SpecLakes == InitLakes /\ [][NextLakes]_vars

(* ------------------------------ the agent ------------------------------ *)
\* a Band subclass other than the physiological one: its abstract methods
\* (band.py lines 53-76) leave the band alone and propose_actions hands back
\* the list the instance was built with
ScriptedBand(band_id, proposals) ==
    [band_id |-> band_id, urgency |-> 0, gain |-> Unit,
     frustration_accumulator |-> 0, memory |-> <<>>,
     internal_state |-> [script |-> proposals]]
IsScripted(band) == "script" \in DOMAIN band.internal_state

band_perceive(band, env_state, agent_state) ==
    IF IsScripted(band) THEN [tick |-> agent_state.tick]
    ELSE perceive(env_state, agent_state)
band_compute_urgency(band, perception) ==
    IF IsScripted(band) THEN band ELSE compute_urgency(band, perception)
band_propose_actions(band, perception, rnd) ==
    IF IsScripted(band) THEN band.internal_state.script
    ELSE propose_actions(band, perception, rnd)
band_update_state(band, perception, action_taken, outcome) ==
    IF IsScripted(band) THEN band
    ELSE update_state(band, perception, action_taken, outcome)
band_compute_learning_signal(band, perception, action, outcome) ==
    IF IsScripted(band) THEN 0
    ELSE compute_learning_signal(band, perception, action, outcome)

\* banded_agent.py lines 8-16 and 36-61
NewBandedAgent(agent_id, x, y, initial_energy) ==
    [state |-> [agent_id |-> agent_id, x |-> x, y |-> y, energy |-> initial_energy,
                tick |-> 0, alive |-> TRUE, times_caught |-> 0],
     bands |-> << NewPhysiologicalBand(1, 2 * Unit) >>,
     arbiter |-> NewArbiter,
     decision_history |-> <<>>]

\* a move onto the neighbouring cell for every action that is not one of the
\* three other moves
execute_action_east_by_default(state, action, world_width, world_height) ==
    LET dx == IF action = "MOVE_WEST" THEN -1
              ELSE IF action \in {"MOVE_NORTH", "MOVE_SOUTH"} THEN 0 ELSE 1
        dy == IF action = "MOVE_NORTH" THEN -1 ELSE IF action = "MOVE_SOUTH" THEN 1 ELSE 0
    IN  [state EXCEPT !.x = (state.x + dx) % world_width,
                      !.y = (state.y + dy) % world_height]

\* a move that stops at the edge of the world
execute_action_clamped(state, action, world_width, world_height) ==
    LET dx == IF action = "MOVE_EAST" THEN 1 ELSE IF action = "MOVE_WEST" THEN -1 ELSE 0
        dy == IF action = "MOVE_NORTH" THEN -1 ELSE IF action = "MOVE_SOUTH" THEN 1 ELSE 0
    IN  [state EXCEPT !.x = Clip(state.x + dx, 0, world_width - 1),
                      !.y = Clip(state.y + dy, 0, world_height - 1)]

\* banded_agent.py lines 117-131
execute_action(state, action, world_width, world_height) ==
    LET dx == IF action = "MOVE_EAST" THEN 1 ELSE IF action = "MOVE_WEST" THEN -1 ELSE 0
        dy == IF action = "MOVE_NORTH" THEN -1 ELSE IF action = "MOVE_SOUTH" THEN 1 ELSE 0
    IN  [state EXCEPT !.x = (state.x + dx) % world_width,
                      !.y = (state.y + dy) % world_height]

MaxEnergy == 150 * Unit

\* the outcome of an action whose energy is not clamped to [0, 150]
compute_outcome_unclamped(state, arbiter, env_state, action, old_x, old_y) ==
    LET base_cost == IF action \in Moves
                     THEN -Unit - 2 * DictGet(env_state, "movement_cost", 0)
                     ELSE IF action = "STAY" THEN -(Unit \div 2)
                     ELSE -Unit
        energy_gain == IF action = "FORAGE" THEN DictGet(env_state, "vegetation", 0) * 10
                       ELSE IF action = "DRINK" THEN DictGet(env_state, "hydration", 0) * 5
                       ELSE IF action = "REST" THEN 2 * Unit
                       ELSE 0
        energy_delta == base_cost + energy_gain
        energy == state.energy + energy_delta
    IN  [state |-> [state EXCEPT !.energy = energy, !.alive = IF energy <= 0 THEN FALSE ELSE @],
         outcome |-> [tick |-> state.tick, energy_delta |-> energy_delta,
                      new_energy |-> energy, new_position |-> <<state.x, state.y>>,
                      old_position |-> <<old_x, old_y>>,
                      dominant_band |-> arbiter.previous_band]]

\* banded_agent.py lines 133-168: the agent state with its new energy, and
\* the outcome dict
compute_outcome(state, arbiter, env_state, action, old_x, old_y) ==
    LET base_cost == IF action \in Moves
                     THEN -Unit - 2 * DictGet(env_state, "movement_cost", 0)
                     ELSE IF action = "STAY" THEN -(Unit \div 2)
                     ELSE -Unit
        energy_gain == IF action = "FORAGE" THEN DictGet(env_state, "vegetation", 0) * 10
                       ELSE IF action = "DRINK" THEN DictGet(env_state, "hydration", 0) * 5
                       ELSE IF action = "REST" THEN 2 * Unit
                       ELSE 0
        energy_delta == base_cost + energy_gain
        energy == Max(0, Min(MaxEnergy, state.energy + energy_delta))
    IN  [state |-> [state EXCEPT !.energy = energy, !.alive = IF energy <= 0 THEN FALSE ELSE @],
         outcome |-> [tick |-> state.tick, energy_delta |-> energy_delta,
                      new_energy |-> energy, new_position |-> <<state.x, state.y>>,
                      old_position |-> <<old_x, old_y>>,
                      dominant_band |-> arbiter.previous_band]]

\* banded_agent.py lines 74-88: what the bands propose and what the arbiter
\* selects; rng holds the draws of the bands' and the arbiter's generators
Decide(agent, env_state, rng) ==
    LET agent_state_dict == [energy |-> agent.state.energy,
                             position |-> <<agent.state.x, agent.state.y>>,
                             tick |-> agent.state.tick]
        Select(all_perceptions, urged, all_proposals) ==
            LET pick == ((rng.pick - 1) % Max(1, Len(Flatten(all_proposals)))) + 1
            IN  [all_perceptions |-> all_perceptions, bands |-> urged,
                 all_proposals |-> all_proposals,
                 selected |-> select_action(agent.arbiter, all_proposals,
                                            agent_state_dict, pick)]
        Propose(all_perceptions, urged) ==
            LET Selecting(all_proposals) == Select(all_perceptions, urged, all_proposals)
            IN  With(<<>> \o [i \in 1..Len(agent.bands) |->
                                band_propose_actions(urged[i], all_perceptions[i],
                                                     rng.direction)],
                     Selecting)
        Urge(all_perceptions) ==
            LET Proposing(urged) == Propose(all_perceptions, urged)
            IN  With(<<>> \o [i \in 1..Len(agent.bands) |->
                                band_compute_urgency(agent.bands[i], all_perceptions[i])],
                     Proposing)
    IN  With(<<>> \o [i \in 1..Len(agent.bands) |->
                        band_perceive(agent.bands[i], env_state, agent_state_dict)],
             Urge)

\* banded_agent.py lines 90-115: the step after the arbiter's selection
Act(agent, env_state, world_width, world_height, rng, decided) ==
    LET selected_action == decided.selected.result.action
        entry == [tick |-> agent.state.tick,
                  position |-> <<agent.state.x, agent.state.y>>,
                  action |-> selected_action,
                  dominant_band |-> decided.selected.result.band,
                  urgencies |-> [i \in 1..Len(agent.bands) |-> decided.bands[i].urgency],
                  energy |-> agent.state.energy]
        moved == execute_action(agent.state, selected_action, world_width, world_height)
        Learn(acted, i) ==
            LET perception == decided.all_perceptions[i]
                updated == band_update_state(decided.bands[i], perception,
                                             selected_action, acted.outcome)
                affect == band_compute_learning_signal(updated, perception,
                                                       selected_action, acted.outcome)
            IN  update_gain(write_memory(updated, perception, selected_action,
                                         acted.outcome, affect, rng.drop))
        Finish(acted) ==
            [state |-> [acted.state EXCEPT !.tick = @ + 1],
             bands |-> [i \in 1..Len(agent.bands) |-> Learn(acted, i)],
             arbiter |-> decided.selected.arbiter,
             decision_history |-> Append(agent.decision_history, entry)]
    IN  With(compute_outcome(moved, decided.selected.arbiter, env_state,
                             selected_action, agent.state.x, agent.state.y), Finish)

\* a step that does not look at the alive flag
Stepped_dead_too(agent, env_state, world_width, world_height, rng) ==
    LET Acting(decided) ==
            [agent |-> Act(agent, env_state, world_width, world_height, rng, decided),
             all_proposals |-> decided.all_proposals]
    IN  With(Decide(agent, env_state, rng), Acting)

\* banded_agent.py lines 63-115: the agent after the step, and what its
\* bands proposed in it
Stepped(agent, env_state, world_width, world_height, rng) ==
    IF ~agent.state.alive THEN [agent |-> agent, all_proposals |-> <<>>]
    ELSE LET Acting(decided) ==
                 [agent |-> Act(agent, env_state, world_width, world_height, rng, decided),
                  all_proposals |-> decided.all_proposals]
         IN  With(Decide(agent, env_state, rng), Acting)

agent_step(agent, env_state, world_width, world_height, rng) ==
    Stepped(agent, env_state, world_width, world_height, rng).agent

PredationDamage == 50 * Unit

\* a catch that kills whatever the energy left
handle_predation_fatal(state) ==
    LET energy == Max(0, state.energy - PredationDamage)
    IN  [state EXCEPT !.times_caught = @ + 1, !.energy = energy, !.alive = FALSE]

\* a catch whose energy loss is not floored at 0
handle_predation_unfloored(state) ==
    LET energy == state.energy - PredationDamage
    IN  [state EXCEPT !.times_caught = @ + 1, !.energy = energy,
                      !.alive = IF energy <= 0 THEN FALSE ELSE @]

\* banded_agent.py lines 170-176
handle_predation(state) ==
    LET energy == Max(0, state.energy - PredationDamage)
    IN  [state EXCEPT !.times_caught = @ + 1, !.energy = energy,
                      !.alive = IF energy <= 0 THEN FALSE ELSE @]

(* One agent, its bands possibly replaced through the public bands list,   *)
(* driven by step and handle_predation for up to MaxAgentCalls calls.       *)
MaxAgentCalls == 2

\* the band lists an agent steps with
BandLists ==
    { << NewPhysiologicalBand(1, 2 * Unit) >>,
      << SeasonedBand(600, 300, 100, "hunger", 300, 10) >>,
      << >>,
      << ScriptedBand(2, << >>) >>,
      << ScriptedBand(2, << NoneProposal >>) >>,
      << ScriptedBand(2, << >>), ScriptedBand(3, << NoneProposal, NoneProposal >>) >>,
      << NewPhysiologicalBand(1, 2 * Unit),
         ScriptedBand(2, << Proposal("MOVE_EAST", VetoUrgency + 1, Unit, 2,
                                     [reason |-> "flee_predator"]) >>) >> }
    \cup { << ScriptedBand(2, << Proposal(action, VetoUrgency + 1, Unit, 2,
                                          [reason |-> "scripted"]) >>) >> :
              action \in Actions }

AgentInputs ==
    {[NewBandedAgent(0, c[2], c[1], energy) EXCEPT !.bands = bands] :
        c \in {<<0, 0>>, <<WorldH - 1, WorldW - 1>>},
        energy \in {MaxEnergy, 100 * Unit, 9 * Unit, 400},
        bands \in BandLists}

\* the draws of the generators behind one agent step
Rngs(agent) ==
    [direction : 1..4, pick : 1..MaxProposals,
     drop : UNION {DropSets(Append(agent.bands[i].memory, <<>>), MaxMemories) :
                     i \in 1..Len(agent.bands)} \cup {{}}]

InitAgent ==
    \E agent \in AgentInputs, env_state \in EnvInputs :
        /\ eng = NoRuns /\ disk = NoRuns /\ hyd = NoRuns /\ view = NoRuns
        /\ agt = [kind |-> "agent", calls |-> 0, agent |-> agent, before |-> agent,
                  env_state |-> env_state]
        /\ ret = NoCall

\* agent.step(env_state, world_width, world_height)
AgentStep(rng) ==
    /\ agt.kind = "agent" /\ agt.calls < MaxAgentCalls
    /\ \E stepped \in {Stepped(agt.agent, agt.env_state, WorldW, WorldH, rng)} :
         /\ agt' = [agt EXCEPT !.calls = @ + 1, !.before = agt.agent,
                               !.agent = stepped.agent]
         /\ ret' = [op |-> "step", raised |-> "none", value |-> stepped.all_proposals]
    /\ UNCHANGED <<eng, disk, hyd, view>>

\* agent.handle_predation()
HandlePredation ==
    /\ agt.kind = "agent" /\ agt.calls < MaxAgentCalls
    /\ agt' = [agt EXCEPT !.calls = @ + 1, !.before = agt.agent,
                          !.agent.state = handle_predation(@)]
    /\ ret' = [op |-> "handle_predation", raised |-> "none", value |-> <<>>]
    /\ UNCHANGED <<eng, disk, hyd, view>>

NextAgent ==
    \/ \E rng \in Rngs(agt.agent) : AgentStep(rng)
    \/ HandlePredation

SpecAgent == InitAgent /\ [][NextAgent]_vars

(* An agent whose band is starving and parched, on barren ground, stepped  *)
(* under weak fairness until it has starved: the step of a dead agent       *)
(* returns at once, so from then on nothing changes.                        *)
\* a band that has been desperate for a while: both deficits at their cap,
\* desperation 1.0, and the frustration it has accumulated so far
ChronicBand(frustration) ==
    [SeasonedBand(Unit, Unit, 500, "hunger", 300, 60) EXCEPT
       !.internal_state.desperation_level = Unit,
       !.frustration_accumulator = frustration]

\* frustration after 0, 10, 19 and 20 (or more) desperate steps, and the
\* energy of three, two and one more steps
ChronicAgents ==
    {[NewBandedAgent(0, 0, 0, energy) EXCEPT !.bands = << ChronicBand(frustration) >>] :
        frustration \in {0, 500, 950, Unit}, energy \in {4500, 3000, 1500}}

InitChronic ==
    \E agent \in ChronicAgents, hydration \in {0, 500} :
        /\ eng = NoRuns /\ disk = NoRuns /\ hyd = NoRuns /\ view = NoRuns
        /\ agt = [kind |-> "agent", calls |-> 0, agent |-> agent, before |-> agent,
                  env_state |-> EnvState(hydration, 0, 0, ZeroPatch(3, 3))]
        /\ ret = NoCall

\* agent.step(env_state, world_width, world_height) of a living agent
ChronicStep(rng) ==
    /\ agt.kind = "agent" /\ agt.agent.state.alive
    /\ \E stepped \in {Stepped(agt.agent, agt.env_state, WorldW, WorldH, rng)} :
         /\ agt' = [agt EXCEPT !.calls = @ + 1, !.before = agt.agent,
                               !.agent = stepped.agent]
         /\ ret' = [op |-> "step", raised |-> "none", value |-> stepped.all_proposals]
    /\ UNCHANGED <<eng, disk, hyd, view>>

NextChronic == \E rng \in Rngs(agt.agent) : ChronicStep(rng)

SpecChronic == InitChronic /\ [][NextChronic]_vars /\ WF_vars(NextChronic)

(* ------------------------------ predators ------------------------------ *)
\* predators.py lines 5-12
Predator(predator_id, x, y, hunt_radius, speed, active) ==
    [predator_id |-> predator_id, x |-> x, y |-> y, hunt_radius |-> hunt_radius,
     speed |-> speed, active |-> active]

\* predators.py lines 15-34, the predators' draws given
NewPredatorSystem(world_width, world_height, predators) ==
    [world_width |-> world_width, world_height |-> world_height,
     predators |-> predators, threat_field |-> ZeroPatch(world_height, world_width)]

Sign(a) == IF a > 0 THEN 1 ELSE IF a < 0 THEN -1 ELSE 0

\* the distance along one wrapped axis: min(abs(a - p), size - abs(a - p))
WrapDist(a, p, size) == Min(Abs(a - p), size - Abs(a - p))

\* dx**2 + dy**2 between an agent position and a predator
Dist2(sys, position, predator) ==
    WrapDist(position[1], predator.x, sys.world_width) ^ 2
        + WrapDist(position[2], predator.y, sys.world_height) ^ 2

\* np.sqrt(n) in thousandths, rounded down
RECURSIVE SqrtBetween(_, _, _)
SqrtBetween(n, lo, hi) ==
    IF lo >= hi THEN lo
    ELSE LET mid == (lo + hi + 1) \div 2
         IN  IF mid * mid <= n THEN SqrtBetween(n, mid, hi) ELSE SqrtBetween(n, lo, mid - 1)
Sqrt(n) == SqrtBetween(n * Unit * Unit, 0, (n + 1) * Unit)

\* predators.py lines 53-70: None, or the first of the closest positions
\* within the hunt radius
find_closest_agent(sys, predator, agent_positions) ==
    LET InReach(i) == Dist2(sys, agent_positions[i], predator) <= predator.hunt_radius ^ 2
        Closest(i) ==
            /\ InReach(i)
            /\ \A j \in 1..Len(agent_positions) :
                 InReach(j) =>
                    \/ Dist2(sys, agent_positions[j], predator)
                          > Dist2(sys, agent_positions[i], predator)
                    \/ (Dist2(sys, agent_positions[j], predator)
                          = Dist2(sys, agent_positions[i], predator) /\ j >= i)
    IN  {agent_positions[i] : i \in {j \in 1..Len(agent_positions) : Closest(j)}}

\* a hunt that never goes round the world's edge
move_toward_unwrapped(sys, predator, target) ==
    LET dx == target[1] - predator.x
        dy == target[2] - predator.y
        step_x == IF Abs(dx) > Abs(dy) THEN Sign(dx) * Min(predator.speed, Abs(dx)) ELSE 0
        step_y == IF Abs(dx) > Abs(dy) THEN 0 ELSE Sign(dy) * Min(predator.speed, Abs(dy))
    IN  [predator EXCEPT !.x = (predator.x + step_x) % sys.world_width,
                         !.y = (predator.y + step_y) % sys.world_height]

\* predators.py lines 72-92
move_toward(sys, predator, target) ==
    LET dx0 == target[1] - predator.x
        dy0 == target[2] - predator.y
        dx == IF 2 * Abs(dx0) > sys.world_width
              THEN -(sys.world_width - Abs(dx0)) * Sign(dx0) ELSE dx0
        dy == IF 2 * Abs(dy0) > sys.world_height
              THEN -(sys.world_height - Abs(dy0)) * Sign(dy0) ELSE dy0
        step_x == IF Abs(dx) > Abs(dy) THEN Sign(dx) * Min(predator.speed, Abs(dx)) ELSE 0
        step_y == IF Abs(dx) > Abs(dy) THEN 0 ELSE Sign(dy) * Min(predator.speed, Abs(dy))
    IN  [predator EXCEPT !.x = (predator.x + step_x) % sys.world_width,
                         !.y = (predator.y + step_y) % sys.world_height]

\* predators.py lines 94-100: draw holds the two integers drawn from -1..1
random_patrol(sys, predator, draw) ==
    [predator EXCEPT !.x = (predator.x + draw[1]) % sys.world_width,
                     !.y = (predator.y + draw[2]) % sys.world_height]

\* predators.py lines 102-114: the threat one predator casts on cell <<y, x>>;
\* of the offsets the loops visit for the cell the nearest one leaves the
\* largest value, the threat radius being at least 10
ThreatOf(sys, predator, cell) ==
    LET threat_radius == predator.hunt_radius + 5
        StepsTo(a, p, size) ==
            CHOOSE d \in 0..threat_radius :
                /\ (p + d) % size = a \/ (p - d) % size = a
                /\ \A e \in 0..(d - 1) : (p + e) % size # a /\ (p - e) % size # a
        dist == Sqrt(StepsTo(cell[2], predator.x, sys.world_width) ^ 2
                       + StepsTo(cell[1], predator.y, sys.world_height) ^ 2)
    IN  Max(0, Unit - dist \div threat_radius)

\* predators.py lines 36-51: patrol[i] is the draw of predator i's patrol
predators_update(sys, agent_positions, patrol) ==
    LET Moved(i) ==
            LET predator == sys.predators[i]
                closest_agent == find_closest_agent(sys, predator, agent_positions)
            IN  IF ~predator.active THEN predator
                ELSE IF closest_agent # {}
                THEN move_toward(sys, predator, CHOOSE target \in closest_agent : TRUE)
                ELSE random_patrol(sys, predator, patrol[i])
        predators == [i \in 1..Len(sys.predators) |-> Moved(i)]
        Threat(cell) ==
            LET cast == {ThreatOf(sys, predators[i], cell) :
                           i \in {j \in 1..Len(predators) : predators[j].active}}
            IN  IF cast = {} THEN 0 ELSE CHOOSE t \in cast : \A u \in cast : u <= t
    IN  [sys EXCEPT !.predators = predators,
                    !.threat_field = Patch(sys.world_height, sys.world_width,
                                           [c \in Cells(sys.world_height, sys.world_width)
                                              |-> Threat(c)])]

\* predators.py lines 116-118
get_threat_at(sys, x, y) == sys.threat_field.at[<<y, x>>]

\* predators.py lines 120-127
get_local_threat(sys, x, y, radius) ==
    LET y_min == Max(0, y - radius)
        y_max == Min(sys.world_height, y + radius + 1)
        x_min == Max(0, x - radius)
        x_max == Min(sys.world_width, x + radius + 1)
    IN  Patch(y_max - y_min, x_max - x_min,
              [c \in Cells(y_max - y_min, x_max - x_min) |->
                 sys.threat_field.at[<<y_min + c[1], x_min + c[2]>>]])

\* the agent is within distance 1.0 of an active predator
Caught(sys, position) ==
    \E i \in 1..Len(sys.predators) :
        sys.predators[i].active /\ Dist2(sys, position, sys.predators[i]) <= 1

\* the ascending list of the members of a set of integers
RECURSIVE Ascending(_)
Ascending(set) ==
    IF set = {} THEN <<>>
    ELSE LET least == CHOOSE n \in set : \A m \in set : n <= m
         IN  << least >> \o Ascending(set \ {least})

\* predators.py lines 129-146: indices into the list, from 0
check_predation(sys, agent_positions) ==
    Ascending({i - 1 : i \in {j \in 1..Len(agent_positions) : Caught(sys, agent_positions[j])}})

(* An agent fleeing one hunting predator in a square world: the threat     *)
(* patch the simulation cuts for it, the move the band proposes from it    *)
(* and the cell the move leads to.                                         *)
FleeSide == 7

FleePredators ==
    {Predator(0, 0, 0, 5, 1, TRUE), Predator(0, FleeSide \div 2, FleeSide \div 2, 5, 1, TRUE),
     Predator(0, FleeSide - 1, 1, 9, 2, TRUE)}

InitFlee ==
    \E predator \in FleePredators, x \in 0..(FleeSide - 1), y \in 0..(FleeSide - 1) :
        /\ eng = NoRuns /\ disk = NoRuns /\ hyd = NoRuns /\ view = NoRuns
        /\ agt = [kind |-> "flee", fled |-> FALSE, x |-> x, y |-> y,
                  predators |-> NewPredatorSystem(FleeSide, FleeSide, << predator >>)]
        /\ ret = NoCall

\* simulation.py lines 57-66 for one agent whose band is focused on the
\* threat: predators.update, the env_state's neighborhood_threat, the flee
\* proposal (band_physiological.py line 104) and _execute_action
FleeStep(patrol) ==
    /\ agt.kind = "flee" /\ ~agt.fled
    /\ \E sys \in {predators_update(agt.predators, << <<agt.x, agt.y>> >>, << patrol >>)} :
       \E proposals \in {propose_flee_action(
                             NewPhysiologicalBand(1, 2 * Unit),
                             [neighborhood_threat |-> get_local_threat(sys, agt.x, agt.y, 3),
                              local_threat |-> get_threat_at(sys, agt.x, agt.y)],
                             900)} :
       \E state \in {execute_action([x |-> agt.x, y |-> agt.y], proposals[1].action,
                                     FleeSide, FleeSide)} :
         /\ agt' = [agt EXCEPT !.fled = TRUE, !.x = state.x, !.y = state.y,
                               !.predators = sys]
         /\ ret' = [op |-> "flee", raised |-> "none",
                    value |-> [from |-> <<agt.x, agt.y>>, action |-> proposals[1].action]]
    /\ UNCHANGED <<eng, disk, hyd, view>>

NextFlee == \E patrol \in (-1..1) \X (-1..1) : FleeStep(patrol)

SpecFlee == InitFlee /\ [][NextFlee]_vars

(* One predator and agents that stand still, in a world wide enough for   *)
(* an agent to be out of the predator's reach.                             *)
HuntW == 12
HuntH == 8
MaxUpdates == 1

HuntPredators ==
    {Predator(0, HuntW \div 2, 0, 5, 1, TRUE), Predator(0, HuntW - 1, HuntH - 2, 6, 2, TRUE)}

InitHunt ==
    \E predator \in HuntPredators, x \in 0..(HuntW - 1), y \in 0..(HuntH - 1),
       others \in {<<>>, << <<3, 3>> >>} :
        /\ eng = NoRuns /\ disk = NoRuns /\ hyd = NoRuns /\ view = NoRuns
        /\ agt = [kind |-> "hunt", updates |-> 0,
                  agent_positions |-> << <<x, y>> >> \o others,
                  predators |-> NewPredatorSystem(HuntW, HuntH, << predator >>)]
        /\ ret = NoCall

\* predators.update(agent_positions, tick)
PredatorsUpdate(patrol) ==
    /\ agt.kind = "hunt" /\ agt.updates < MaxUpdates
    /\ agt' = [agt EXCEPT !.updates = @ + 1,
                          !.predators = predators_update(@, agt.agent_positions, << patrol >>)]
    /\ ret' = [op |-> "update", raised |-> "none",
               value |-> [before |-> agt.predators.predators]]
    /\ UNCHANGED <<eng, disk, hyd, view>>

\* the patrol is drawn only when no agent is in reach
NextHunt ==
    \E patrol \in IF find_closest_agent(agt.predators, agt.predators.predators[1],
                                        agt.agent_positions) = {}
                   THEN (-1..1) \X (-1..1) ELSE {<<0, 0>>} :
        PredatorsUpdate(patrol)

SpecHunt == InitHunt /\ [][NextHunt]_vars

(* ----------------------------- simulation ------------------------------ *)
\* simulation.py lines 15-33, with the agents of spawn_agents (lines 35-49)
NewSimulation(d, predators, agents) ==
    LET cfg == d.files["scenario.json"].content.cfg
    IN  [kind |-> "sim",
         world_width |-> cfg.world.width, world_height |-> cfg.world.height,
         predators |-> NewPredatorSystem(cfg.world.width, cfg.world.height, predators),
         agents |-> agents, current_tick |-> 0,
         population_stats |-> <<>>, predation_events |-> <<>>]

\* simulation.py lines 84-98
get_env_state_for_agent(v, registry, sys, agent) ==
    LET fields == get_all_fields_at(v, registry, agent.state.x, agent.state.y).value
    IN  [temperature |-> DictGet(fields, "temperature", Unit \div 2),
         hydration |-> DictGet(fields, "hydration", Unit \div 2),
         vegetation |-> DictGet(fields, "vegetation", 0),
         movement_cost |-> DictGet(fields, "movement_cost", 0),
         threat |-> get_threat_at(sys, agent.state.x, agent.state.y),
         neighborhood_threat |-> get_local_threat(sys, agent.state.x, agent.state.y, 3)]

\* the indices, in list order, of the agents that are alive
AliveAgents(agents) == Ascending({i \in 1..Len(agents) : agents[i].state.alive})

Positions(agents, indices) ==
    [k \in 1..Len(indices) |-> <<agents[indices[k]].state.x, agents[indices[k]].state.y>>]

\* simulation.py lines 110-138 (standard deviation and threat mean left out)
compute_population_stats(sim) ==
    LET alive_agents == AliveAgents(sim.agents)
        energies == [k \in 1..Len(alive_agents) |-> sim.agents[alive_agents[k]].state.energy]
        Values == {energies[k] : k \in 1..Len(energies)}
    IN  IF alive_agents = <<>>
        THEN [tick |-> sim.current_tick, alive_count |-> 0, mean_energy |-> 0,
              total_predation_events |-> Len(sim.predation_events)]
        ELSE [tick |-> sim.current_tick, alive_count |-> Len(alive_agents),
              mean_energy |-> SumSeq(energies) \div Len(energies),
              min_energy |-> CHOOSE e \in Values : \A f \in Values : e <= f,
              max_energy |-> CHOOSE e \in Values : \A f \in Values : f <= e,
              total_predation_events |-> Len(sim.predation_events)]

\* simulation.py lines 68-82: the caught agents handled, the events and the
\* statistics recorded
AfterCheck(sim, sys, alive_agents, stepped, caught_indices) ==
    LET caught == {alive_agents[caught_indices[k] + 1] : k \in 1..Len(caught_indices)}
        Handled(agents) ==
            LET events == [k \in 1..Len(caught_indices) |->
                             LET agent == agents[alive_agents[caught_indices[k] + 1]]
                             IN  [tick |-> sim.current_tick,
                                  agent_id |-> agent.state.agent_id,
                                  position |-> <<agent.state.x, agent.state.y>>,
                                  energy_after |-> agent.state.energy,
                                  died |-> ~agent.state.alive]]
                checked == [sim EXCEPT !.predators = sys, !.agents = agents,
                                       !.predation_events = @ \o events]
            IN  [checked EXCEPT
                   !.population_stats = Append(@, compute_population_stats(checked)),
                   !.current_tick = @ + 1]
    IN  With(<<>> \o [i \in 1..Len(sim.agents) |->
                        IF i \in caught
                        THEN [stepped[i] EXCEPT !.state = handle_predation(@)]
                        ELSE stepped[i]],
             Handled)

\* a step in which the agents step before the predators update: the agents
\* perceive the threat field of the tick before, and the predators hunt the
\* positions the agents moved to
simulation_step_agents_first(sim, v, d, rng) ==
    LET registry == build_registry(d.files["scenario.json"].content.cfg)
        alive_agents == AliveAgents(sim.agents)
        Check(v2, sys, env_states, stepped) ==
            LET Seen(caught_indices) ==
                    [sim |-> AfterCheck(sim, sys, alive_agents, stepped, caught_indices),
                     view |-> v2,
                     seen |-> [before |-> sim, alive_agents |-> alive_agents,
                               env_states |-> env_states,
                               at_check |-> [i \in 1..Len(sim.agents) |-> stepped[i].state],
                               caught_indices |-> caught_indices]]
            IN  With(check_predation(sys, Positions(stepped, alive_agents)), Seen)
        UpdatePredators(v2, env_states, stepped) ==
            LET Checking(sys) == Check(v2, sys, env_states, stepped)
            IN  With(predators_update(sim.predators, Positions(stepped, alive_agents),
                                      rng.patrol),
                     Checking)
        StepAgents(v2) ==
            LET Perceived(env_states) ==
                    LET Updating(stepped) == UpdatePredators(v2, env_states, stepped)
                    IN  With(<<>> \o [i \in 1..Len(sim.agents) |->
                                        IF sim.agents[i].state.alive
                                        THEN agent_step(sim.agents[i], env_states[i],
                                                        sim.world_width, sim.world_height,
                                                        rng.agents[i])
                                        ELSE sim.agents[i]],
                             Updating)
            IN  With(<<>> \o [i \in 1..Len(sim.agents) |->
                                IF sim.agents[i].state.alive
                                THEN get_env_state_for_agent(v2, registry, sim.predators,
                                                             sim.agents[i])
                                ELSE <<>>],
                     Perceived)
    IN  With(load_tick(v, d, sim.current_tick), StepAgents)

\* simulation.py lines 51-82: the simulation and its grid after the step,
\* with what the step saw on its way: the simulation it started from, the
\* environment each living agent was handed, and the agents as the predation
\* check found them.  An agent's step touches neither the grid, the predators
\* nor another agent, so the env_state dicts are built here in one sweep.
simulation_step(sim, v, d, rng) ==
    LET registry == build_registry(d.files["scenario.json"].content.cfg)
        alive_agents == AliveAgents(sim.agents)
        Check(v2, sys, env_states, stepped) ==
            LET Seen(caught_indices) ==
                    [sim |-> AfterCheck(sim, sys, alive_agents, stepped, caught_indices),
                     view |-> v2,
                     seen |-> [before |-> sim, alive_agents |-> alive_agents,
                               env_states |-> env_states,
                               at_check |-> [i \in 1..Len(sim.agents) |-> stepped[i].state],
                               caught_indices |-> caught_indices]]
            IN  With(check_predation(sys, Positions(stepped, alive_agents)), Seen)
        StepAgents(v2, sys) ==
            LET Perceived(env_states) ==
                    LET Checking(stepped) == Check(v2, sys, env_states, stepped)
                    IN  With(<<>> \o [i \in 1..Len(sim.agents) |->
                                        IF sim.agents[i].state.alive
                                        THEN agent_step(sim.agents[i], env_states[i],
                                                        sim.world_width, sim.world_height,
                                                        rng.agents[i])
                                        ELSE sim.agents[i]],
                             Checking)
            IN  With(<<>> \o [i \in 1..Len(sim.agents) |->
                                IF sim.agents[i].state.alive
                                THEN get_env_state_for_agent(v2, registry, sys, sim.agents[i])
                                ELSE <<>>],
                     Perceived)
        UpdatePredators(v2) ==
            LET Stepping(sys) == StepAgents(v2, sys)
            IN  With(predators_update(sim.predators, Positions(sim.agents, alive_agents),
                                      rng.patrol),
                     Stepping)
    IN  With(load_tick(v, d, sim.current_tick), UpdatePredators)

(* run_headless writes a run directory; a simulation is then built over   *)
(* it, its agents spawned, and stepped up to MaxSimTicks times.             *)
MaxSimTicks == 2

\* the runs simulated over: the scenario as loaded, and the ticks run
SimRuns ==
    { [loaded |-> LoadScenario(ScenarioDefault, 1337), ticks |-> MaxTicks],
      [loaded |-> LoadScenario(ScenarioFrozen, 9999), ticks |-> 1] }

\* spawn_agents: the agents at the drawn positions, with initial_energy
Spawn(positions, initial_energy) ==
    [i \in 1..Len(positions) |->
        NewBandedAgent(i - 1, positions[i][1], positions[i][2], initial_energy)]

Spawns ==
    { Spawn(<< <<1, 0>>, <<WorldW - 1, WorldH - 1>> >>, 100 * Unit),
      Spawn(<< <<0, 0>>, <<0, 0>> >>, 40 * Unit),
      Spawn(<< <<1, 0>> >>, 50 * Unit + 1),
      Spawn(<< <<1, 0>> >>, 400) }

\* the predators drawn by PredatorSystem.__init__, and one a caller switched off
PredatorLists ==
    { << >>,
      << Predator(0, 1, 0, 5, 1, TRUE) >>,
      << Predator(0, WorldW - 1, WorldH - 1, 14, 2, TRUE) >>,
      << Predator(0, 0, 0, 5, 1, FALSE), Predator(1, WorldW - 1, 0, 9, 1, TRUE) >> }

\* the draws one step takes: a patrol for each active predator without an
\* agent in reach, a direction for each living agent; an agent of spawn_agents
\* has one band with one proposal, so the arbiter's rng.choice(1) draws it
SimRngs(sim) ==
    LET positions == Positions(sim.agents, AliveAgents(sim.agents))
        Patrols(i) ==
            IF sim.predators.predators[i].active
               /\ find_closest_agent(sim.predators, sim.predators.predators[i], positions) = {}
            THEN (-1..1) \X (-1..1) ELSE {<<0, 0>>}
        Draws(i) ==
            IF sim.agents[i].state.alive
            THEN [direction : 1..4, pick : {1}, drop : {{}}]
            ELSE {[direction |-> 1, pick |-> 1, drop |-> {}]}
    IN  {[patrol |-> patrol, agents |-> draws] :
            patrol \in {f \in [1..Len(sim.predators.predators) -> (-1..1) \X (-1..1)] :
                          \A i \in DOMAIN f : f[i] \in Patrols(i)},
            draws \in {g \in [1..Len(sim.agents) -> [direction : 1..4, pick : {1}, drop : {{}}]] :
                          \A i \in DOMAIN g : g[i] \in Draws(i)}}

InitSim ==
    \E run \in SimRuns :
        LET e == StartEngine(run.loaded, run.ticks, <<"run", 1>>, 1)
        IN  /\ eng = << e >>
            /\ disk = << StartDisk(e) >>
            /\ hyd = << NoHydration(StartDisk(e)) >>
            /\ view = << NewGrid(StartDisk(e)) >>
            /\ agt = NoAgents
            /\ ret = NoCall

\* AgentSimulation(run_dir, num_predators) and sim.spawn_agents(num_agents)
StartSimulation(predators, agents) ==
    /\ agt = NoAgents /\ eng[1].pc = "done"
    /\ agt' = NewSimulation(disk[1], predators, agents)
    /\ ret' = [op |-> "spawn_agents", raised |-> "none", value |-> <<>>]
    /\ UNCHANGED <<eng, disk, hyd, view>>

\* sim.step()
SimStep(rng) ==
    /\ agt.kind = "sim" /\ agt.current_tick < MaxSimTicks
    /\ \E after \in {simulation_step(agt, view[1], disk[1], rng)} :
         /\ agt' = after.sim
         /\ view' = << after.view >>
         /\ ret' = [op |-> "step", raised |-> "none", value |-> after.seen]
    /\ UNCHANGED <<eng, disk, hyd>>

NextSim ==
    \/ RunTick(1)
    \/ WriteTables(1)
    \/ WriteChecksums(1)
    \/ RewriteManifest(1)
    \/ \E predators \in PredatorLists, agents \in Spawns : StartSimulation(predators, agents)
    \/ agt.kind = "sim" /\ \E rng \in SimRngs(agt) : SimStep(rng)

SpecSim == InitSim /\ [][NextSim]_vars

(* build_registry called, and called again, on one scenario's field list.  *)
MaxFields == 3

FieldNames == {"temperature", "hydration", "vegetation"}

\* the field lists of a scenario: up to MaxFields descriptors, the names free
FieldLists ==
    UNION {{[i \in 1..n |-> Fld(names[i], 0, Unit, ZeroCoeffs, names[i] = "vegetation" /\ i = n)] :
              names \in [1..n -> FieldNames]} : n \in 1..MaxFields}

InitRegistry ==
    \E fields \in FieldLists :
        /\ eng = NoRuns /\ disk = NoRuns /\ hyd = NoRuns /\ view = NoRuns
        /\ agt = [kind |-> "registry", cfg |-> [fields |-> List(fields)], built |-> <<>>]
        /\ ret = NoCall

\* build_registry(cfg)
BuildRegistry ==
    /\ agt.kind = "registry" /\ Len(agt.built) < 2
    /\ \E registry \in {build_registry(agt.cfg)} :
         /\ agt' = [agt EXCEPT !.built = Append(@, registry)]
         /\ ret' = [op |-> "build_registry", raised |-> "none", value |-> registry]
    /\ UNCHANGED <<eng, disk, hyd, view>>

NextRegistry == BuildRegistry

SpecRegistry == InitRegistry /\ [][NextRegistry]_vars

(* laplacian5 applied to one array under one pair of wrap flags.            *)
\* arrays of every shape up to the world's, no two cells alike and no three
\* in arithmetic progression
MaxScale == 5

StencilArrays ==
    {[h |-> h, w |-> w, at |-> [c \in Cells(h, w) |-> k * (c[1] * WorldW + c[2] + 1) ^ 2 + k]] :
        h \in 1..WorldH, w \in 1..WorldW, k \in 1..MaxScale}

InitStencil ==
    \E a \in StencilArrays, wrapx \in BOOLEAN, wrapy \in BOOLEAN :
        /\ eng = NoRuns /\ disk = NoRuns /\ hyd = NoRuns /\ view = NoRuns
        /\ agt = [kind |-> "stencil", arr |-> a.at, h |-> a.h, w |-> a.w,
                  wrapx |-> wrapx, wrapy |-> wrapy]
        /\ ret = NoCall

\* laplacian5(arr, wrapx, wrapy)
Laplacian5 ==
    /\ agt.kind = "stencil" /\ ret = NoCall
    /\ ret' = [op |-> "laplacian5", raised |-> "none",
               value |-> laplacian5(agt.arr, agt.h, agt.w, agt.wrapx, agt.wrapy)]
    /\ UNCHANGED <<eng, disk, hyd, view, agt>>

NextStencil == Laplacian5

SpecStencil == InitStencil /\ [][NextStencil]_vars

(* =============================== claims ================================ *)
InBounds(tensor, registry) ==
    \A k \in DOMAIN tensor :
        registry.bounds[k[3]].lo <= tensor[k] /\ tensor[k] <= registry.bounds[k[3]].hi

\* the tensor the engine held after processing tick t (loop iteration t)
HeldAfter(e, t) == e.held[t + 2]

JournalOf(d) ==
    IF d.files["deltas.parquet"].exists THEN d.files["deltas.parquet"].content ELSE <<>>

RowSet(rows) == {rows[n] : n \in 1..Len(rows)}

SameOnLiveFields(a, b, registry) ==
    \A k \in DOMAIN a : ~registry.derived[k[3]] => a[k] = b[k]

(* C1: for a completed run of N ticks and every tick t with 0 <= t < N,    *)
(* hydrate_tick(run, t) equals, in every cell of every registered field,   *)
(* the tensor the engine held after processing tick t.                     *)
C1_HydrateEqualsHeld ==
    \A r \in Runs :
        (eng[r].pc = "done" /\ hyd[r].called /\ hyd[r].tick < eng[r].ticks)
            => hyd[r].tensor = HeldAfter(eng[r], hyd[r].tick)

(* C2: for a run of any number of ticks, hydrate_tick(run, 0) equals the   *)
(* initial tensor of the run's scenario, the state before any kernel step. *)
C2_HydrateZeroIsInitial ==
    \A r \in Runs :
        (hyd[r].called /\ hyd[r].tick = 0)
            => /\ hyd[r].tensor = eng[r].held[1]
               /\ hyd[r].tensor = assemble_initial_tensor(eng[r].cfg, build_registry(eng[r].cfg))

\* tick 0 hydrated on a finished run whose journal holds records of tick 0
C2_Witness ==
    \E r \in Runs :
        /\ hyd[r].called /\ hyd[r].tick = 0 /\ eng[r].pc = "done"
        /\ \E row \in RowSet(JournalOf(disk[r])) : row.tick = 0
        /\ eng[r].held[2] # eng[r].held[1]

(* C3: whatever delta records the journal holds, every value of the tensor *)
(* hydrate_tick returns lies inside its field's registered bounds, for     *)
(* every requested tick, field and cell.                                   *)
C3_HydrateInBounds ==
    \A r \in Runs :
        hyd[r].called
            => InBounds(hyd[r].tensor, build_registry(disk[r].files["scenario.json"].content.cfg))

\* a hydration whose replayed sum left the bounds, above or below, before the clamp
C3_Witness ==
    \E r \in Runs :
        /\ hyd[r].called /\ hyd[r].tick > 0
        /\ LET raw == hydrate_tick_unclamped(disk[r], hyd[r].tick)
               reg == build_registry(disk[r].files["scenario.json"].content.cfg)
           IN  /\ \E k \in DOMAIN raw : raw[k] > reg.bounds[k[3]].hi
               /\ \E k \in DOMAIN raw : raw[k] < reg.bounds[k[3]].lo

(* C4: after every tick the tensor step_kernels returned has every cell of *)
(* every field, derived fields included, inside the field's registered     *)
(* bounds.                                                                 *)
C4_KernelsInBounds ==
    \A r \in Runs :
        \A n \in 1..Len(eng[r].held) : InBounds(eng[r].held[n], eng[r].reg)

AllCoeffsZero(cfg) ==
    \A i \in DOMAIN cfg.fields : cfg.fields[i].coeffs = ZeroCoeffs

(* C6: with every diffusion, advection, decay and replenish coefficient    *)
(* zero and the coupling pass switched off, step_kernels leaves every      *)
(* non-derived field unchanged, so no delta record is emitted, also when   *)
(* temperature, hydration and vegetation are all registered.               *)
C6_ZeroPassesChangeNothing ==
    \A r \in Runs :
        (AllCoeffsZero(eng[r].cfg) /\ ~eng[r].cfg.passes.coupling)
            => /\ eng[r].deltas_rows = <<>>
               /\ \A n \in 1..Len(eng[r].held) :
                      SameOnLiveFields(eng[r].held[n], eng[r].held[1], eng[r].reg)

(* C7: if run_headless is halted after tick k, the artifacts on disk allow *)
(* hydrate_tick(run, t), t <= k, to reconstruct the tensor held after tick *)
(* t.  Stated for t >= 1 and the journaled (non-derived) fields.           *)
C7_HaltedRunReplayable ==
    \A r \in Runs :
        (eng[r].pc = "halted" /\ hyd[r].called
           /\ hyd[r].tick >= 1 /\ hyd[r].tick <= eng[r].t - 1)
            => SameOnLiveFields(hyd[r].tensor, HeldAfter(eng[r], hyd[r].tick), eng[r].reg)

(* C8: when run_headless returns, every stored checksum equals the content *)
(* hash of its artifact's final on-disk content.                           *)
C8_ChecksumsMatch ==
    \A r \in Runs :
        eng[r].pc = "done"
            => \A f \in ArtifactFiles :
                   disk[r].checksums[f].exists
                       => /\ disk[r].files[f].exists
                          /\ disk[r].checksums[f].content = Blake3(disk[r].files[f].content)

HashMismatch(d) ==
    StableHash(d.files["scenario.json"].content.cfg)
        # d.files["manifest.json"].content.scenario_hash

(* C9: when the hash of the scenario snapshot used for hydration does not  *)
(* match the manifest's scenario_hash, hydrate_tick surfaces an error and  *)
(* returns no tensor.                                                      *)
C9_HashMismatchAborts ==
    \A r \in Runs :
        (hyd[r].called /\ HashMismatch(disk[r])) => hyd[r].status = "error"

(* C10: after load_tick(t) on a finished run the tensor the view exposes   *)
(* through its accessors equals hydrate_tick(run, t).                       *)
C10_ViewIsHydrated ==
    \A r \in Runs :
        (view[r].loaded /\ eng[r].pc = "done")
            => LET cfg == disk[r].files["scenario.json"].content.cfg
                   reg == build_registry(cfg)
                   hydrated == hydrate_tick(disk[r], view[r].current_tick)
               IN  \A c \in Cells(cfg.world.height, cfg.world.width) :
                     \A n \in DOMAIN reg.indices :
                        get_cell(view[r], reg, c[2], c[1], n).value
                            = hydrated[<<c[1], c[2], reg.indices[n]>>]

UnitBounds(cfg) ==
    \A i \in DOMAIN cfg.fields : cfg.fields[i].lo = 0 /\ cfg.fields[i].hi = Unit

(* C11: after load_tick(t) on a finished run whose fields all have bounds   *)
(* [0,1], every value of the loaded tensor, and every value                 *)
(* get_all_fields_at returns, lies in [0,1].                                *)
C11_ViewInUnitBounds ==
    \A r \in Runs :
        (view[r].loaded /\ eng[r].pc = "done" /\ UnitBounds(ViewCfg(r)))
            => /\ \A k \in DOMAIN view[r].tensor :
                      0 <= view[r].tensor[k] /\ view[r].tensor[k] <= Unit
               /\ (ret.op = "get_all_fields_at" /\ ret.raised = "none")
                      => \A n \in DOMAIN ret.value :
                             0 <= ret.value[n] /\ ret.value[n] <= Unit

ViewGetters == {"get_field", "get_cell", "get_all_fields_at", "get_neighborhood"}

(* C12: an accessor called on a view on which load_tick was never called    *)
(* raises ValueError and the view still has no tensor and current_tick 0;   *)
(* an accessor called after load_tick does not raise ValueError.            *)
C12_AccessorsNeedLoad ==
    \A r \in Runs :
        ret.op \in ViewGetters
            => /\ ~view[r].loaded => (ret.raised = "ValueError" /\ view[r] = NewGrid(disk[r]))
               /\ view[r].loaded => ret.raised # "ValueError"

\* get_neighborhood was called on a fresh view of a finished run and raised
C12_Witness ==
    /\ eng[1].pc = "done"
    /\ ~view[1].loaded
    /\ ret.op = "get_neighborhood"
    /\ ret.raised = "ValueError"

\* the journal on disk has a record of every tick the run processed
ChangesEveryTick(e, d) ==
    \A t \in 0..(e.ticks - 1) : \E row \in RowSet(JournalOf(d)) : row.tick = t

(* C13: after a run of N >= 1 ticks whose fields change on every tick,      *)
(* get_tick_range(run) returns (0, N).                                      *)
C13_TickRangeIsRunLength ==
    \A r \in Runs :
        (eng[r].pc = "done" /\ eng[r].ticks >= 1 /\ ChangesEveryTick(eng[r], disk[r])
           /\ ret.op = "get_tick_range")
            => ret.value = <<0, eng[r].ticks>>

TicksPresent(d) ==
    {d.files["field_stats.parquet"].content[n].tick :
        n \in 1..Len(d.files["field_stats.parquet"].content)}

(* C14: for a finished run of N >= 1 ticks with metrics_cadence 1, the      *)
(* field-stats table has rows for tick 0 and for tick N, and at least N     *)
(* distinct tick values.                                                    *)
C14_MetricsCoverFinalTick ==
    \A r \in Runs :
        (eng[r].pc = "done" /\ eng[r].ticks >= 1 /\ eng[r].cfg.metrics_cadence = 1)
            => /\ 0 \in TicksPresent(disk[r])
               /\ eng[r].ticks \in TicksPresent(disk[r])
               /\ Cardinality(TicksPresent(disk[r])) >= eng[r].ticks

\* the proposals the bands handed to the arbiter, None entries left out
ProposalsOf(all_proposals) ==
    UNION {{all_proposals[b][n] : n \in 1..Len(all_proposals[b])} :
              b \in 1..Len(all_proposals)} \ {NoneProposal}

VetoProposals(all_proposals) ==
    {p \in ProposalsOf(all_proposals) : p.band_id = 2 /\ p.urgency > VetoUrgency}

HungerProposals(all_proposals) ==
    {p \in ProposalsOf(all_proposals) :
        /\ p.band_id = 1
        /\ "reason" \in DOMAIN p.params
        /\ p.params.reason = "critical_hunger"}

EnergyOf(agent_state) == IF "energy" \in DOMAIN agent_state THEN agent_state.energy ELSE 0

(* C15: if some proposal has band_id 2 and urgency > 8.0, select_action     *)
(* returns such a proposal, with its action and band 2, whatever the        *)
(* energy, the previous band and the other proposals are.                   *)
C15_SafetyVetoWins ==
    (agt.kind = "arbiter" /\ ret.op = "select_action"
       /\ VetoProposals(agt.all_proposals) # {})
        => /\ ret.value.proposal \in VetoProposals(agt.all_proposals)
           /\ ret.value.action = ret.value.proposal.action
           /\ ret.value.band = 2

\* a veto was returned although the energy rule applied too, on a second call
C15_Witness ==
    /\ agt.kind = "arbiter" /\ ret.op = "select_action"
    /\ ret.value.proposal \in VetoProposals(agt.all_proposals)
    /\ HungerProposals(agt.all_proposals) # {}
    /\ EnergyOf(agt.agent_state) < CriticalEnergy
    /\ Len(agt.arbiter.dominant_band_history) = 2

(* C16 as claimed: if energy < 10.0 and some band-1 proposal carries        *)
(* reason = critical_hunger, select_action returns that proposal.           *)
C16_EnergyEmergencyWins ==
    (agt.kind = "arbiter" /\ ret.op = "select_action"
       /\ EnergyOf(agt.agent_state) < CriticalEnergy
       /\ HungerProposals(agt.all_proposals) # {})
        => ret.value.proposal \in HungerProposals(agt.all_proposals)

(* C16 amended: if energy < 10.0, some band-1 proposal carries reason =     *)
(* critical_hunger and no band-2 proposal has urgency > 8.0, select_action  *)
(* returns a band-1 critical_hunger proposal, with its action and band 1.   *)
C16_EnergyEmergencyAfterVeto ==
    (agt.kind = "arbiter" /\ ret.op = "select_action"
       /\ EnergyOf(agt.agent_state) < CriticalEnergy
       /\ HungerProposals(agt.all_proposals) # {}
       /\ VetoProposals(agt.all_proposals) = {})
        => /\ ret.value.proposal \in HungerProposals(agt.all_proposals)
           /\ ret.value.action = ret.value.proposal.action
           /\ ret.value.band = 1

\* the hunger proposal was returned over a proposal of higher urgency
C16_Witness ==
    /\ agt.kind = "arbiter" /\ ret.op = "select_action"
    /\ EnergyOf(agt.agent_state) < CriticalEnergy
    /\ VetoProposals(agt.all_proposals) = {}
    /\ ret.value.proposal \in HungerProposals(agt.all_proposals)
    /\ \E p \in ProposalsOf(agt.all_proposals) : p.urgency > ret.value.proposal.urgency

DrivesZero(band) ==
    /\ band.internal_state.hunger = 0
    /\ band.internal_state.thirst = 0
    /\ band.internal_state.fatigue = 0
    /\ band.internal_state.temperature_stress = 0

(* C18: for a physiological band whose hunger, thirst, fatigue and          *)
(* temperature_stress are all zero and whose perceived local threat is      *)
(* zero, one perceive -> compute_urgency -> propose_actions cycle yields    *)
(* urgency 0 and a single proposal whose action is STAY.                    *)
C18_ContentBandStays ==
    (agt.kind = "band" /\ ret.op = "propose_actions"
       /\ DrivesZero(agt.before) /\ agt.perception.local_threat = 0)
        => /\ agt.band.urgency = 0
           /\ Len(ret.value) = 1
           /\ ret.value[1].action = "STAY"

\* no band of the step proposed anything: empty lists, or None entries only
NothingProposed(all_proposals) == Flatten(all_proposals) = <<>>

(* C17: when every band returns an empty proposal list (or all proposals    *)
(* are None), select_action returns STAY without raising, and the agent's   *)
(* step completes with the agent staying in place.                          *)
C17_NothingProposedStays ==
    (agt.kind = "agent" /\ ret.op = "step" /\ agt.before.state.alive
       /\ NothingProposed(ret.value))
        => /\ ret.raised = "none"
           /\ Len(agt.agent.decision_history) = Len(agt.before.decision_history) + 1
           /\ agt.agent.decision_history[Len(agt.agent.decision_history)].action = "STAY"
           /\ agt.agent.decision_history[Len(agt.agent.decision_history)].dominant_band = 0
           /\ agt.agent.state.x = agt.before.state.x
           /\ agt.agent.state.y = agt.before.state.y
           /\ agt.agent.state.tick = agt.before.state.tick + 1

\* C17 witness: a step of an agent with two bands, one returning an empty
\* list and one returning two None proposals, has completed
C17_Witness ==
    /\ agt.kind = "agent" /\ ret.op = "step" /\ agt.before.state.alive
    /\ Len(ret.value) = 2 /\ ret.value[1] = <<>> /\ Len(ret.value[2]) = 2
    /\ NothingProposed(ret.value)
    /\ agt.agent.state.tick = agt.before.state.tick + 1

\* the agents the predation check of the last step found within distance 1 of
\* an active predator, as indices into the simulation's agent list
InReachAtCheck ==
    {ret.value.alive_agents[k] : k \in {j \in 1..Len(ret.value.alive_agents) :
        Caught(agt.predators, <<ret.value.at_check[ret.value.alive_agents[j]].x,
                                ret.value.at_check[ret.value.alive_agents[j]].y>>)}}

C20_RegistryIndexIsPosition ==
    (agt.kind = "registry" /\ ret.op = "build_registry")
        => /\ ret.raised = "none"
           /\ \A i \in DOMAIN ret.value.names : ret.value.indices[ret.value.names[i]] = i
           /\ \A k \in 1..Len(agt.built) : agt.built[k].indices = ret.value.indices

\* the last call was a step of a living agent
StepDone == agt.kind = "agent" /\ ret.op = "step" /\ agt.before.state.alive

\* the action the last step executed
LastAction == agt.agent.decision_history[Len(agt.agent.decision_history)].action

(* C21: an agent's position stays inside the world; each MOVE_* changes     *)
(* exactly one coordinate by one cell modulo the world dimension, and every *)
(* other action leaves the position unchanged.                              *)
C21_MovesWrapInWorld ==
    agt.kind = "agent" =>
        /\ agt.agent.state.x \in 0..(WorldW - 1)
        /\ agt.agent.state.y \in 0..(WorldH - 1)
        /\ StepDone =>
              LET old == agt.before.state
                  new == agt.agent.state
              IN  /\ LastAction = "MOVE_WEST" =>
                        new.x = (old.x - 1) % WorldW /\ new.x # old.x /\ new.y = old.y
                  /\ LastAction = "MOVE_EAST" =>
                        new.x = (old.x + 1) % WorldW /\ new.x # old.x /\ new.y = old.y
                  /\ LastAction = "MOVE_NORTH" =>
                        new.y = (old.y - 1) % WorldH /\ new.y # old.y /\ new.x = old.x
                  /\ LastAction = "MOVE_SOUTH" =>
                        new.y = (old.y + 1) % WorldH /\ new.y # old.y /\ new.x = old.x
                  /\ LastAction \notin Moves => new.x = old.x /\ new.y = old.y

\* C21 witness: a step that moved west from (0, 0) has landed at (W-1, 0)
C21_Witness ==
    /\ StepDone /\ LastAction = "MOVE_WEST"
    /\ agt.before.state.x = 0 /\ agt.before.state.y = 0
    /\ agt.agent.state.x = WorldW - 1 /\ agt.agent.state.y = 0

(* C22: for an agent spawned with energy in (0, 150], after any sequence of *)
(* step and handle_predation calls the energy is in [0, 150], alive is      *)
(* false exactly when energy <= 0, and a dead agent never comes back alive. *)
C22_EnergyClampedDeadAtZero ==
    agt.kind = "agent" =>
        /\ agt.agent.state.energy >= 0
        /\ agt.agent.state.energy <= MaxEnergy
        /\ agt.agent.state.alive <=> agt.agent.state.energy > 0
        /\ ~agt.before.state.alive => ~agt.agent.state.alive

\* C22 witness: a step whose energy cost exceeded what the agent had left has
\* ended with energy 0 and the agent dead
C22_Witness ==
    /\ StepDone
    /\ agt.before.state.energy < Unit \div 2
    /\ agt.agent.state.energy = 0 /\ ~agt.agent.state.alive

(* C23: BandedAgent.step on an agent whose alive flag is false changes      *)
(* nothing: position, energy, tick, times_caught, decision history, band    *)
(* drives, focus, memory and arbiter history are all left as they were.     *)
C23_DeadStepIsNoOp ==
    (agt.kind = "agent" /\ ret.op = "step" /\ ~agt.before.state.alive)
        => /\ ret.raised = "none"
           /\ agt.agent.state = agt.before.state
           /\ agt.agent.decision_history = agt.before.decision_history
           /\ agt.agent.bands = agt.before.bands
           /\ agt.agent.arbiter = agt.before.arbiter

\* C23 witness: step has been called on an agent that an earlier call left
\* dead, with a decision on record and a band to update
C23_Witness ==
    /\ agt.kind = "agent" /\ ret.op = "step" /\ ~agt.before.state.alive
    /\ agt.calls = 2
    /\ Len(agt.before.decision_history) = 1 /\ Len(agt.before.bands) > 0

(* C24: each handle_predation call increments times_caught by exactly 1 and *)
(* sets energy to max(0, energy - 50); the agent is dead afterwards exactly *)
(* when the resulting energy is 0; position and tick are unchanged.         *)
C24_PredationCostsFifty ==
    (agt.kind = "agent" /\ ret.op = "handle_predation")
        => /\ agt.agent.state.times_caught = agt.before.state.times_caught + 1
           /\ agt.agent.state.energy = Max(0, agt.before.state.energy - 50 * Unit)
           /\ ~agt.agent.state.alive <=> agt.agent.state.energy = 0
           /\ agt.agent.state.x = agt.before.state.x
           /\ agt.agent.state.y = agt.before.state.y
           /\ agt.agent.state.tick = agt.before.state.tick

\* C24 witness: an agent spawned with energy 100 has been caught twice, the
\* first catch leaving it alive with 50 and the second dead with 0
C24_Witness ==
    /\ agt.kind = "agent" /\ ret.op = "handle_predation"
    /\ agt.before.state.energy = 50 * Unit /\ agt.before.state.alive
    /\ agt.before.state.times_caught = 1
    /\ agt.agent.state.energy = 0 /\ ~agt.agent.state.alive
    /\ agt.agent.state.times_caught = 2

\* the neighbour of cell <<y, x>> one column (dx) or one row (dy) away: the
\* cell itself past an edge that does not wrap, the opposite edge past one
\* that does
Neighbour(y, x, dy, dx) ==
    LET ny == IF y + dy \in 0..(agt.h - 1) THEN y + dy
              ELSE IF ~agt.wrapy THEN y
              ELSE IF dy < 0 THEN agt.h - 1 ELSE 0
        nx == IF x + dx \in 0..(agt.w - 1) THEN x + dx
              ELSE IF ~agt.wrapx THEN x
              ELSE IF dx < 0 THEN agt.w - 1 ELSE 0
    IN  agt.arr[<<ny, nx>>]

(* C25: with wrap.x = false the 5-point Laplacian takes the cell's own value *)
(* as the missing left neighbour in column 0 and as the missing right        *)
(* neighbour in column W-1, with wrap.x = true the value from the opposite   *)
(* column; the same holds per row for wrap.y.                                *)
C25_LaplacianEdges ==
    (agt.kind = "stencil" /\ ret.op = "laplacian5")
        => \A c \in Cells(agt.h, agt.w) :
             ret.value[c] = Neighbour(c[1], c[2], -1, 0) + Neighbour(c[1], c[2], 1, 0)
                              + Neighbour(c[1], c[2], 0, -1) + Neighbour(c[1], c[2], 0, 1)
                              - 4 * agt.arr[c]

\* C25 witness: the Laplacian of an array at least three columns wide and two
\* rows high has been taken with wrap.x false and wrap.y true
C25_Witness ==
    /\ agt.kind = "stencil" /\ ret.op = "laplacian5"
    /\ agt.w >= 3 /\ agt.h >= 2 /\ ~agt.wrapx /\ agt.wrapy
    /\ ret.value[<<0, 0>>] = agt.arr[<<agt.h - 1, 0>>] + agt.arr[<<1, 0>>]
                               + agt.arr[<<0, 0>>] + agt.arr[<<0, 1>>] - 4 * agt.arr[<<0, 0>>]

\* the agents' positions when the predation check of the last step ran
PositionsAtCheck ==
    [k \in 1..Len(ret.value.alive_agents) |->
        <<ret.value.at_check[ret.value.alive_agents[k]].x,
          ret.value.at_check[ret.value.alive_agents[k]].y>>]

(* C26: within every AgentSimulation.step the environment of the current    *)
(* tick is loaded, then the predators update on the positions of the agents *)
(* alive at the start of the tick, then every such agent steps, perceiving  *)
(* the threat field stamped in this tick, then the predation check runs on  *)
(* the post-move positions, then exactly one population-stats entry is      *)
(* appended and current_tick increases by 1.                                *)
C26_StepPhasesInOrder ==
    (agt.kind = "sim" /\ ret.op = "step")
        => LET before == ret.value.before
               alive_agents == AliveAgents(before.agents)
               registry == build_registry(disk[1].files["scenario.json"].content.cfg)
           IN  /\ view[1].loaded /\ view[1].current_tick = before.current_tick
               /\ view[1] = load_tick(NewGrid(disk[1]), disk[1], before.current_tick)
               /\ \E patrol \in [1..Len(before.predators.predators) -> (-1..1) \X (-1..1)] :
                     agt.predators = predators_update(before.predators,
                                                      Positions(before.agents, alive_agents),
                                                      patrol)
               /\ ret.value.alive_agents = alive_agents
               /\ \A i \in 1..Len(before.agents) :
                     IF before.agents[i].state.alive
                     THEN /\ ret.value.env_states[i]
                               = get_env_state_for_agent(view[1], registry, agt.predators,
                                                         before.agents[i])
                          /\ ret.value.at_check[i].tick = before.agents[i].state.tick + 1
                     ELSE ret.value.at_check[i] = before.agents[i].state
               /\ ret.value.caught_indices = check_predation(agt.predators, PositionsAtCheck)
               /\ \A i \in 1..Len(before.agents) :
                     IF i \in InReachAtCheck
                     THEN agt.agents[i].state.times_caught
                            = ret.value.at_check[i].times_caught + 1
                     ELSE agt.agents[i].state = ret.value.at_check[i]
               /\ Len(agt.population_stats) = Len(before.population_stats) + 1
               /\ agt.population_stats[Len(agt.population_stats)].tick = before.current_tick
               /\ agt.current_tick = before.current_tick + 1

\* C26 witness: in a step a predator moved, an agent perceived a threat the
\* field did not hold at its cell before the step, moved, and was caught where
\* it had moved to
C26_Witness ==
    /\ agt.kind = "sim" /\ ret.op = "step"
    /\ agt.predators.predators # ret.value.before.predators.predators
    /\ \E i \in InReachAtCheck :
         LET old == ret.value.before.agents[i].state
         IN  /\ old.alive
             /\ ret.value.env_states[i].threat > 0
             /\ ret.value.env_states[i].threat
                  # get_threat_at(ret.value.before.predators, old.x, old.y)
             /\ <<ret.value.at_check[i].x, ret.value.at_check[i].y>> # <<old.x, old.y>>

\* the delta records run r has emitted: those collected in memory, and those
\* written to grid/deltas.parquet
Emitted(r) == RowSet(eng[r].deltas_rows) \cup RowSet(JournalOf(disk[r]))

\* a derived field of run r changed in some cell while tick t was processed
DerivedChanged(r, t) ==
    \E k \in DOMAIN eng[r].tensor :
        eng[r].reg.derived[k[3]] /\ eng[r].held[t + 2][k] # eng[r].held[t + 1][k]

(* C27: no delta record emitted by the engine carries the field_id of a     *)
(* field registered as derived, on any tick of any run; every emitted       *)
(* record has a tick in 0..N-1 and |delta| > 1e-8.                          *)
C27_NoDerivedDeltas ==
    \A r \in Runs :
        \A row \in Emitted(r) :
            /\ ~eng[r].reg.derived[row.field_id]
            /\ row.tick \in 0..(eng[r].ticks - 1)
            /\ row.delta # 0

\* C27 witness: a finished run of at least two ticks has journaled records of
\* its last tick, and its derived field changed in that tick
C27_Witness ==
    /\ eng[1].pc = "done" /\ eng[1].ticks >= 2
    /\ \E row \in RowSet(JournalOf(disk[1])) : row.tick = eng[1].ticks - 1
    /\ DerivedChanged(1, eng[1].ticks - 1)

(* C28: in the tensor returned by step_kernels, a registered movement_cost  *)
(* field equals clamp(0.3 + 0.5*V + 0.2*(1-H)) of the same tick's final     *)
(* vegetation V and hydration H when those fields are registered, and       *)
(* equals 0 in every cell when the registry has neither of them.            *)
C28_MovementCostFormula ==
    \A r \in Runs :
        (eng[r].t >= 1 /\ HasField(eng[r].reg, "movement_cost"))
            => LET reg == eng[r].reg
                   tensor == eng[r].tensor
                   idx == reg.indices["movement_cost"]
               IN  \A c \in Cells(eng[r].cfg.world.height, eng[r].cfg.world.width) :
                     /\ (HasField(reg, "vegetation") /\ HasField(reg, "hydration"))
                          => tensor[<<c[1], c[2], idx>>]
                               = Clip(300 + Mul(500, tensor[<<c[1], c[2], reg.indices["vegetation"]>>])
                                          + Mul(200, Unit - tensor[<<c[1], c[2], reg.indices["hydration"]>>]),
                                      0, Unit)
                     /\ (~HasField(reg, "vegetation") /\ ~HasField(reg, "hydration"))
                          => tensor[<<c[1], c[2], idx>>] = 0

(* C29: after any sequence of select_action calls since construction or     *)
(* reset_history, dominant_band_history holds exactly one entry per call,   *)
(* and previous_action and previous_band equal the action and band_id the   *)
(* most recent call returned.                                               *)
C29_HistoryTracksCalls ==
    agt.kind = "arbiter" =>
        /\ Len(agt.arbiter.dominant_band_history) = agt.calls
        /\ ret.op = "select_action" =>
              /\ agt.arbiter.previous_action = {ret.value.action}
              /\ agt.arbiter.previous_band = {ret.value.band}

\* the weighted drive of a focus: hunger*2.0, thirst*1.3, fatigue*0.8 or
\* threat*10.0, and zero when there is no focus
WeightedDrive(band, perception, focus) ==
    IF focus = "hunger" THEN Mul(band.internal_state.hunger, 2000)
    ELSE IF focus = "thirst" THEN Mul(band.internal_state.thirst, 1300)
    ELSE IF focus = "fatigue" THEN Mul(band.internal_state.fatigue, 800)
    ELSE IF focus = "threat" THEN Mul(perception.local_threat, 10000)
    ELSE 0

(* C30: after every compute_urgency call the band's urgency equals the      *)
(* weighted drive of the focus held after focus selection, multiplied by    *)
(* (1 + desperation) and by the gain, also in steps where the largest       *)
(* weighted drive is not the current focus.                                 *)
C30_UrgencyIsFocusDrive ==
    (agt.kind = "band" /\ ret.op = "compute_urgency")
        => LET focus_urgency == WeightedDrive(agt.band, agt.perception,
                                              agt.band.internal_state.current_focus)
               desperation == agt.band.internal_state.desperation_level
           IN  /\ agt.band.urgency
                    = Mul(Mul(focus_urgency, Unit + desperation), agt.band.gain)
               /\ ret.value = agt.band.urgency

\* the agent's band is desperate: its desperation is above 0.6
Desperate == agt.agent.bands[1].internal_state.desperation_level > 600

\* the last step raised the gain of the agent's band
GainRaised == ret.op = "step" /\ agt.agent.bands[1].gain > agt.before.bands[1].gain

(* C31: if a physiological band is chronically frustrated, its desperation  *)
(* above 0.6 on every agent step, then after finitely many steps its        *)
(* frustration accumulator exceeds the frustration threshold and            *)
(* update_gain raises the band's gain.                                      *)
C31_ChronicFrustrationRaisesGain == ([]Desperate) => <>GainRaised

\* the threat on the cell an agent at position from reaches with a move
NeighbourThreat(from, action) ==
    LET to == execute_action([x |-> from[1], y |-> from[2]], action, FleeSide, FleeSide)
    IN  get_threat_at(agt.predators, to.x, to.y)

(* C32: when the focus is threat, the proposed MOVE_* leads to the cardinal *)
(* neighbour cell of the agent's own position that has the lowest threat    *)
(* among its four neighbours, for every agent position, those within 3      *)
(* cells of the world's border included.                                    *)
C32_FleeToSafestNeighbour ==
    ret.op = "flee" =>
        /\ ret.value.action \in Moves
        /\ \A other \in Moves :
              NeighbourThreat(ret.value.from, ret.value.action)
                 <= NeighbourThreat(ret.value.from, other)

\* update_state ran in this step: the band's proposed action was executed
UpdateStateRan == agt.kind = "band" /\ agt.pc = "update" /\ agt'.pc = "perceive"

\* the executed action lowered the drive the band was focused on
FocusedDriveReduced ==
    LET focus == agt.band.internal_state.current_focus
    IN  /\ focus \in {"hunger", "thirst", "fatigue"}
        /\ agt'.band.internal_state[focus] < agt.band.internal_state[focus]

(* C33: update_state increments ticks_since_satisfaction by 1 exactly when  *)
(* the executed action failed to reduce the currently focused drive, and    *)
(* does not increment it when the action reduced that drive.                *)
C33_TicksCountUnsatisfiedFocus ==
    [][UpdateStateRan =>
         ((agt'.band.internal_state.ticks_since_satisfaction
              = agt.band.internal_state.ticks_since_satisfaction + 1)
            <=> ~FocusedDriveReduced)]_vars

(* C34: a band's memory holds at most 1000 entries; when an append takes it *)
(* over capacity exactly the surplus is evicted, and the survivors keep     *)
(* their relative insertion order.                                          *)
C34_MemoryBoundedInOrder ==
    agt.kind = "memory" =>
        LET memory == agt.band.memory
        IN  /\ Len(memory) <= MaxMemories
            /\ Len(memory) = Min(agt.tick, MaxMemories)
            /\ \A k \in 1..Len(memory) : memory[k] = RestEntry(memory[k].tick)
            /\ \A k \in 1..Len(memory) : memory[k].tick \in 0..(agt.tick - 1)
            /\ \A k \in 1..(Len(memory) - 1) : memory[k].tick < memory[k + 1].tick

\* an append took the memory over capacity and an entry from the middle was
\* evicted
C34_Witness ==
    /\ ret.op = "write_memory" /\ agt.tick = MaxMemories + 1
    /\ agt.band.memory[1].tick = 0
    /\ agt.band.memory[MaxMemories].tick = MaxMemories

\* the predator went from before to after along the axis of size cells only,
\* by min(speed, offset) cells towards the target coordinate
HuntedAlong(before, after, target, size, speed) ==
    LET offset == WrapDist(target, before, size)
    IN  /\ WrapDist(after, before, size) = Min(speed, offset)
        /\ WrapDist(target, after, size) = offset - Min(speed, offset)

(* C35: a predator with an agent within its hunt radius moves along exactly *)
(* one axis, the one with the larger toroidal offset to the closest agent,  *)
(* by min(speed, offset) cells in the direction that shortens the toroidal  *)
(* distance: it never overshoots, never gets farther away and stays inside  *)
(* the world; with no agent in reach it moves by -1, 0 or +1 on each axis.  *)
C35_PredatorHuntsOrPatrols ==
    (agt.kind = "hunt" /\ ret.op = "update") =>
        LET sys == agt.predators
            before == ret.value.before[1]
            after == sys.predators[1]
            closest_agent == find_closest_agent(sys, before, agt.agent_positions)
        IN  /\ after.x \in 0..(sys.world_width - 1)
            /\ after.y \in 0..(sys.world_height - 1)
            /\ IF closest_agent = {}
               THEN /\ WrapDist(after.x, before.x, sys.world_width) <= 1
                    /\ WrapDist(after.y, before.y, sys.world_height) <= 1
               ELSE \A target \in closest_agent :
                      LET offset_x == WrapDist(target[1], before.x, sys.world_width)
                          offset_y == WrapDist(target[2], before.y, sys.world_height)
                      IN  /\ \/ /\ offset_x >= offset_y
                                /\ after.y = before.y
                                /\ HuntedAlong(before.x, after.x, target[1],
                                               sys.world_width, before.speed)
                             \/ /\ offset_y >= offset_x
                                /\ after.x = before.x
                                /\ HuntedAlong(before.y, after.y, target[2],
                                               sys.world_height, before.speed)
                          /\ Dist2(sys, target, after) <= Dist2(sys, target, before)

\* a predator of speed 2 went round the world's edge onto an agent one cell
\* away
C35_Witness ==
    /\ agt.kind = "hunt" /\ ret.op = "update"
    /\ LET before == ret.value.before[1]
           after == agt.predators.predators[1]
       IN  /\ before.speed = 2
           /\ before.x = HuntW - 1 /\ after.x = 0
           /\ <<after.x, after.y>> = agt.agent_positions[1]

\* the steepest-descent target of a cell: the lowest of its 8 wrap-around
\* neighbours, the first in scan order among equally low ones, and the cell
\* itself when none is strictly lower
SteepestTarget(E, c) ==
    LET Neighbour8(i) == WrapCell(E, c, Offsets8[i])
        lowest == CHOOSE i \in 1..8 :
                     /\ \A j \in 1..8 : E.at[Neighbour8(i)] <= E.at[Neighbour8(j)]
                     /\ \A j \in 1..(i - 1) : E.at[Neighbour8(j)] > E.at[Neighbour8(i)]
    IN  IF E.at[Neighbour8(lowest)] < E.at[c] THEN Neighbour8(lowest) ELSE c

\* the other cells that flow into c
FlowingInto(E, c) == {u \in Cells(E.rows, E.cols) \ {c} : SteepestTarget(E, u) = c}

RECURSIVE SumOver(_, _)
SumOver(acc, cells) ==
    IF cells = {} THEN 0
    ELSE LET u == CHOOSE v \in cells : TRUE
         IN  acc[u] + SumOver(acc, cells \ {u})

(* C36: flow_accumulation returns A with A[c] = 1 + the sum of A[u] over    *)
(* the cells u whose steepest-descent target is c; every cell is processed  *)
(* exactly once, and only after all the cells that flow into it.            *)
C36_FlowAccumulates ==
    (agt.kind = "flow" /\ ret.op = "flow_accumulation") =>
        LET E == agt.E
            cells == Cells(E.rows, E.cols)
            A == ret.value.acc
            popped == agt.popped
            At(c) == CHOOSE k \in 1..Len(popped) : popped[k] = c
        IN  /\ \A c \in cells : A[c] = 1 + SumOver(A, FlowingInto(E, c))
            /\ Len(popped) = Cardinality(cells)
            /\ \A c \in cells : \E k \in 1..Len(popped) : popped[k] = c
            /\ \A c \in cells : \A u \in FlowingInto(E, c) : At(u) < At(c)
            /\ \A c \in cells : ~ret.value.closed[c]

\* a cell two steps down a slope gathered a cell that had itself gathered one
C36_Witness ==
    /\ agt.kind = "flow" /\ ret.op = "flow_accumulation"
    /\ \E c \in DOMAIN agt.acc :
         \E u \in FlowingInto(agt.E, c) :
            /\ FlowingInto(agt.E, u) # {}
            /\ ret.value.acc[c] >= 4

\* the place of a cell in scan order
ScanIndex(E, c) == c[1] * E.cols + c[2] + 1

\* rounds of relaxation of the water levels, listed in scan order, along
\* the 4 wrap-around neighbours: a cell is reached from a neighbour at the
\* higher of the neighbour's level and its own elevation
RECURSIVE PathLevel(_, _, _)
PathLevel(E, level, rounds) ==
    IF rounds = 0 THEN level
    ELSE LET Relaxed(n) ==
                 LET c == CellSeq(E.rows, E.cols)[n]
                     via == {Max(level[ScanIndex(E, WrapCell(E, c, Offsets4[i]))], E.at[c]) :
                                i \in 1..4}
                     best == CHOOSE v \in via : \A u \in via : v <= u
                 IN  Min(level[n], best)
             Rest(relaxed) == PathLevel(E, relaxed, rounds - 1)
         IN  With(<<>> \o [n \in 1..Len(level) |-> Relaxed(n)], Rest)

\* the least, over the 4-connected wrap-around paths from a border cell to
\* a cell, of the highest elevation on the path
MinimaxLevel(E) ==
    PathLevel(E,
              <<>> \o [n \in 1..(E.rows * E.cols) |->
                         IF IsBorder(E, CellSeq(E.rows, E.cols)[n])
                         THEN E.at[CellSeq(E.rows, E.cols)[n]] ELSE Infinity],
              E.rows * E.cols)

(* C37: the water level of lakes is at least E everywhere, equals E on      *)
(* every border cell, and equals the minimum over the 4-connected           *)
(* wrap-around paths from a border cell of the maximum elevation along the  *)
(* path; the filled elevation is never below E.                             *)
C37_WaterIsMinimaxLevel ==
    (agt.kind = "lakes" /\ ret.op = "lakes") =>
        LET E == agt.E
            cells == Cells(E.rows, E.cols)
        IN  /\ \A c \in cells : ret.value.water[c] >= E.at[c]
            /\ \A c \in cells : IsBorder(E, c) => ret.value.water[c] = E.at[c]
            /\ \E level \in {MinimaxLevel(E)} :
                 \A c \in cells : ret.value.water[c] = level[ScanIndex(E, c)]
            /\ \A c \in cells : ret.value.filled[c] >= E.at[c]

\* an inner depression was filled above its ground
C37_Witness ==
    /\ agt.kind = "lakes" /\ ret.op = "lakes"
    /\ \E c \in DOMAIN ret.value.water :
         /\ ~IsBorder(agt.E, c)
         /\ ret.value.water[c] > agt.E.at[c]
         /\ ret.value.filled[c] = ret.value.water[c]

\* the predation events the last simulation step recorded for agent i
EventsOfStep(i) ==
    {k \in 1..Len(agt.predation_events) :
        /\ agt.predation_events[k].tick = ret.value.before.current_tick
        /\ agt.predation_events[k].agent_id = agt.agents[i].state.agent_id}

(* C38: once an agent is dead none of its state changes in any later        *)
(* operation: a simulation step leaves an agent that was dead at its start  *)
(* as it was, and an agent that was dead when the predation check ran, one  *)
(* that died during its own step earlier in the same tick included, gets    *)
(* no handle_predation and no predation event.                              *)
C38_DeadAgentsAreLeftAlone ==
    (agt.kind = "sim" /\ ret.op = "step") =>
        \A i \in 1..Len(agt.agents) :
            /\ ~ret.value.before.agents[i].state.alive
                  => agt.agents[i] = ret.value.before.agents[i] /\ EventsOfStep(i) = {}
            /\ ~ret.value.at_check[i].alive
                  => agt.agents[i].state = ret.value.at_check[i] /\ EventsOfStep(i) = {}

\* the band has (state) or will have (primed) a focus
Focused == agt.band.internal_state.current_focus # "None"

\* the proposal is the STAY of a content band
IsContent(proposal) ==
    /\ proposal.action = "STAY"
    /\ "reason" \in DOMAIN proposal.params
    /\ proposal.params.reason = "content"

(* C39: once current_focus has been set to a drive it is never None again,  *)
(* so the 'content' STAY proposal is produced only while no focus has been  *)
(* acquired; every propose_actions call returns exactly one proposal, which *)
(* carries the band's own band_id.                                          *)
C39_FocusIsKeptOneProposal ==
    [][/\ agt.kind = "band" /\ Focused => Focused'
       /\ ret'.op = "propose_actions" =>
             /\ Len(ret'.value) = 1
             /\ ret'.value[1].band_id = agt'.band.band_id
             /\ IsContent(ret'.value[1]) <=> ~Focused']_vars

\* a band that had no focus acquired one and proposed an action for it
C39_Witness ==
    /\ agt.kind = "band" /\ ret.op = "propose_actions"
    /\ agt.before.internal_state.current_focus = "None"
    /\ Focused
    /\ Len(ret.value) = 1 /\ ~IsContent(ret.value[1])

\* update_state ran on the FORAGE a band focused on hunger had proposed for
\* the cell it perceives
ProposedForageRan ==
    /\ UpdateStateRan
    /\ agt.band.internal_state.current_focus = "hunger"
    /\ agt.proposals[1].action = "FORAGE"

(* C40: whenever the hunger-focused band proposes FORAGE at a cell,         *)
(* executing FORAGE with the same perception counts as a successful forage  *)
(* in update_state: hunger is reduced, successful_forages is incremented    *)
(* and ticks_since_satisfaction is reset to 0, for every desperation level  *)
(* and every local vegetation value.                                        *)
C40_ProposedForageSucceeds ==
    [][ProposedForageRan =>
         LET st == agt.band.internal_state
             after == agt'.band.internal_state
         IN  /\ after.hunger < st.hunger
             /\ after.successful_forages = st.successful_forages + 1
             /\ after.ticks_since_satisfaction = 0]_vars
====
